---- MODULE Spec2Model ----
(***************************************************************************)
(* Model of the dynamic workflow engine of skynet-mcp:                     *)
(* WorkflowManager (generateWorkflow, validateWorkflow,                    *)
(* checkForCircularReferences, findReachableSteps, executeWorkflow,        *)
(* executeStep, generateSummary) driven the way DynamicAgent.processPrompt *)
(* drives it, with the language model, the tool executor and the child     *)
(* agent spawner as nondeterministic collaborators.                        *)
(***************************************************************************)
EXTENDS Integers, Sequences, FiniteSets, TLC

(***************************************************************************)
(* Bounds of the explored inputs.                                          *)
(***************************************************************************)
\* largest number of steps of a proposed workflow
MaxSteps == 3
\* largest description size of a proposed workflow: one unit per successor
\* id listed and per departure from a plain LLM step (see StepsOfWeight)
MaxWeight == 3

(***************************************************************************)
(* Values.                                                                 *)
(***************************************************************************)
\* step ids; one id more than steps, so that a reference can dangle
Ids == 1..(MaxSteps + 1)
\* a step whose id is missing or empty (!step.id)
NoId == 0
\* a step without a tool
NoTool == "none"
\* WorkflowManagerConfig.tools: the names of the catalogue
Catalogue == {"web_search"}
\* tool names a proposed step may carry
ToolNames == {"web_search", "fetch_url"}
\* a step without a condition
NoCond == [present |-> FALSE, then |-> <<>>, else |-> <<>>]
\* nextSteps that is missing or not an array
NoArray == <<0>>
\* stepResult of a tool that answered null (toolResponse?.result || null)
Null == "null"
NoError == [type |-> "none", step |-> 0, tool |-> NoTool, ids |-> <<>>]
NoWorkflow == [task |-> FALSE, steps |-> <<>>]

Err(t, s, tl, is) == [type |-> t, step |-> s, tool |-> tl, ids |-> is]

Range(s) == {s[i] : i \in DOMAIN s}

NoDup(s) == \A i, j \in DOMAIN s : i # j => s[i] # s[j]

RECURSIVE SeqsOfLen(_, _)
\* all sequences of length k over S
SeqsOfLen(S, k) ==
  IF k = 0 THEN {<<>>}
  ELSE {Append(q, x) : q \in SeqsOfLen(S, k - 1), x \in S}

(***************************************************************************)
(* The proposed workflows: what JSON.parse may hand to validateWorkflow.   *)
(* A step at position i carries id i unless it repeats an earlier id or    *)
(* has none.                                                               *)
(***************************************************************************)
IdChoices(i, c) ==
  IF c = 0 THEN {i} ELSE IF c = 1 THEN (1..(i - 1)) \cup {NoId} ELSE {}

DescChoices(c) == IF c = 0 THEN {TRUE} ELSE IF c = 1 THEN {FALSE} ELSE {}

ToolChoices(c) == IF c = 0 THEN {NoTool} ELSE IF c = 1 THEN ToolNames ELSE {}

ChildChoices(c) == IF c = 0 THEN {FALSE} ELSE IF c = 1 THEN {TRUE} ELSE {}

CondChoices(c) ==
  IF c = 0 THEN {NoCond}
  ELSE UNION {{[present |-> TRUE, then |-> t, else |-> e] :
                 t \in SeqsOfLen(Ids, a), e \in SeqsOfLen(Ids, c - 1 - a)} :
              a \in 0..(c - 1)}

NextChoices(c) == SeqsOfLen(Ids, c) \cup (IF c = 1 THEN {NoArray} ELSE {})

\* the ways to split weight k over the six fields of a step
Splits(k) ==
  {s \in [1..6 -> 0..k] : s[1] + s[2] + s[3] + s[4] + s[5] + s[6] = k
                          /\ s[1] <= 1 /\ s[2] <= 1 /\ s[3] <= 1 /\ s[4] <= 1}

\* the steps of weight k at position i (WorkflowStep)
StepsOfWeight(i, k) ==
  UNION {{[id |-> d, description |-> ds, tool |-> tl, childAgent |-> ch,
           condition |-> cd, nextSteps |-> nx] :
            d \in IdChoices(i, s[1]), ds \in DescChoices(s[2]),
            tl \in ToolChoices(s[3]), ch \in ChildChoices(s[4]),
            cd \in CondChoices(s[5]), nx \in NextChoices(s[6])} :
         s \in Splits(k)}

\* StepsOfWeight, tabulated
StepTable ==
  [i \in 1..(MaxSteps + 1), c \in 0..MaxWeight |-> StepsOfWeight(i, c)]

\* the size of one step: the units StepsOfWeight spends on it
StepWeight(st, i) ==
  (IF st.id = i THEN 0 ELSE 1) + (IF st.description THEN 0 ELSE 1)
  + (IF st.tool = NoTool THEN 0 ELSE 1) + (IF st.childAgent THEN 1 ELSE 0)
  + (IF st.condition.present
     THEN 1 + Len(st.condition.then) + Len(st.condition.else) ELSE 0)
  + Len(st.nextSteps)

RECURSIVE StepsWeight(_, _)
StepsWeight(steps, n) ==
  IF n = 0 THEN 0 ELSE StepsWeight(steps, n - 1) + StepWeight(steps[n], n)

\* the size of a proposed workflow
WorkflowWeight(w) == (IF w.task THEN 0 ELSE 1) + StepsWeight(w.steps, Len(w.steps))

PlainStep(i, nx) ==
  [id |-> i, description |-> TRUE, tool |-> NoTool, childAgent |-> FALSE,
   condition |-> NoCond, nextSteps |-> nx]

\* the diamond A -> {B, C}, B -> D, C -> D
Diamond ==
  [task |-> TRUE,
   steps |-> <<PlainStep(1, <<2, 3>>), PlainStep(2, <<4>>),
               PlainStep(3, <<4>>), PlainStep(4, <<>>)>>]

\* the chain of three steps whose ids count down: "3" -> "2" -> "1"
Countdown ==
  [task |-> TRUE,
   steps |-> <<PlainStep(3, <<2>>), PlainStep(2, <<1>>), PlainStep(1, <<>>)>>]

(***************************************************************************)
(* The values of the server's delayed tasks.                               *)
(***************************************************************************)
\* the number of delayed tasks that are invoked
MaxTasks == 2

\* the number of calls of DelayedResponse
MaxPolls == 2

\* the task ids uuidv4 hands out
TaskIds == 1..MaxTasks

\* a task id that no Invoke has returned
UnknownTaskId == 0

AllTaskIds == TaskIds \cup {UnknownTaskId}

\* no TaskResult
NoResponse == [kind |-> "none", message |-> "", error |-> FALSE]

\* Map.get for a key that is not in the map
Undefined == [taskId |-> 0, status |-> "undefined", response |-> NoResponse, error |-> ""]

\* no agent run
NoJob == [config |-> "none", state |-> "none", threw |-> ""]

\* the tool names of the McpServer's callers
McpToolNames == {"public-tool", "restricted-tool"}

\* this.tools.get of a name that is not registered
Unregistered == [name |-> "undefined", description |-> "", handler |-> "none"]

\* no call has been made to the McpServer yet
NoRequest == [op |-> "none"]

\* the largest maxRetries a caller passes
MaxRetries == 3

\* a number that was not given (undefined)
NotGiven == -1

\* the retryOptions a caller passes, NoRetryOptions standing for undefined
NoRetryOptions == [given |-> FALSE, maxRetries |-> NotGiven, delayMs |-> NotGiven]

RetryOptions ==
  {NoRetryOptions}
    \cup [given : {TRUE}, maxRetries : {NotGiven} \cup 0..MaxRetries, delayMs : {NotGiven, 100}]

\* no call of connectServer or connectClient has been made
NoConnect ==
  [who |-> "none", retryOptions |-> NoRetryOptions, maxRetries |-> 0, delayMs |-> 0,
   retryCount |-> 0, attempts |-> <<>>, pc |-> "idle", threw |-> <<>>]

\* the budgets of the constructor when the caller gives none
DefaultConfig == [maxSteps |-> 10, maxChildAgents |-> 3]

\* the budgets callers give
BudgetConfigs == {DefaultConfig, [maxSteps |-> 2, maxChildAgents |-> 1]}

(***************************************************************************)
(* validateWorkflow and its helpers.                                       *)
(***************************************************************************)
\* workflow.steps.find(s => s.id === stepId): position of the first match, 0 if none
Find(w, stepId) ==
  IF \E i \in DOMAIN w.steps : w.steps[i].id = stepId
  THEN CHOOSE i \in DOMAIN w.steps :
         /\ w.steps[i].id = stepId
         /\ \A j \in 1..(i - 1) : w.steps[j].id # stepId
  ELSE 0

\* StepError without the check of the tool against the catalogue
StepErrorNoToolCheck(w, i) ==
  LET step == w.steps[i] IN
  IF step.id = NoId THEN Err("NoId", 0, NoTool, <<>>)
  ELSE IF ~step.description THEN Err("NoDescription", step.id, NoTool, <<>>)
  ELSE IF step.nextSteps = NoArray THEN Err("NoNextSteps", step.id, NoTool, <<>>)
  ELSE IF \E j \in DOMAIN step.nextSteps : Find(w, step.nextSteps[j]) = 0
    THEN LET j == CHOOSE j \in DOMAIN step.nextSteps :
                    /\ Find(w, step.nextSteps[j]) = 0
                    /\ \A h \in 1..(j - 1) : Find(w, step.nextSteps[h]) # 0
         IN Err("MissingNext", step.id, NoTool, <<step.nextSteps[j]>>)
  ELSE NoError

\* the per-step checks of validateWorkflow, in the order of the code
StepError(w, i) ==
  LET step == w.steps[i] IN
  IF step.id = NoId THEN Err("NoId", 0, NoTool, <<>>)
  ELSE IF ~step.description THEN Err("NoDescription", step.id, NoTool, <<>>)
  ELSE IF step.tool # NoTool /\ step.tool \notin Catalogue
    THEN Err("UnknownTool", step.id, step.tool, <<>>)
  ELSE IF step.nextSteps = NoArray THEN Err("NoNextSteps", step.id, NoTool, <<>>)
  ELSE IF \E j \in DOMAIN step.nextSteps : Find(w, step.nextSteps[j]) = 0
    THEN LET j == CHOOSE j \in DOMAIN step.nextSteps :
                    /\ Find(w, step.nextSteps[j]) = 0
                    /\ \A h \in 1..(j - 1) : Find(w, step.nextSteps[h]) # 0
         IN Err("MissingNext", step.id, NoTool, <<step.nextSteps[j]>>)
  ELSE NoError

\* FirstStepError that goes through all the steps and keeps the last error
FirstStepErrorLast(w) ==
  IF \E i \in DOMAIN w.steps : StepError(w, i) # NoError
  THEN LET i == CHOOSE i \in DOMAIN w.steps :
                  /\ StepError(w, i) # NoError
                  /\ \A j \in (i + 1)..Len(w.steps) : StepError(w, j) = NoError
       IN StepError(w, i)
  ELSE NoError

\* the loop over workflow.steps: the first step error, if any
FirstStepError(w) ==
  IF \E i \in DOMAIN w.steps : StepError(w, i) # NoError
  THEN LET i == CHOOSE i \in DOMAIN w.steps :
                  /\ StepError(w, i) # NoError
                  /\ \A j \in 1..(i - 1) : StepError(w, j) = NoError
       IN StepError(w, i)
  ELSE NoError

RECURSIVE CheckStep(_, _, _)
RECURSIVE CheckNext(_, _, _, _)
\* CheckNext without the throw on a next step that is on the recursion stack
CheckNextNoThrow(w, nx, j, c) ==
  IF j > Len(nx) \/ c.cycle # NoId THEN c
  ELSE IF nx[j] \notin c.visited
       THEN CheckNext(w, nx, j + 1, CheckStep(w, nx[j], c))
       ELSE CheckNext(w, nx, j + 1, c)

\* the body of the for loop of checkStep over step.nextSteps, from index j;
\* c = [visited, recStack, cycle, visits]
CheckNext(w, nx, j, c) ==
  IF j > Len(nx) \/ c.cycle # NoId THEN c
  ELSE LET c1 == IF nx[j] \notin c.visited THEN CheckStep(w, nx[j], c) ELSE c IN
       IF nx[j] \notin c.visited
       THEN CheckNext(w, nx, j + 1, c1)
       ELSE IF nx[j] \in c.recStack
         THEN [c EXCEPT !.cycle = nx[j]]
         ELSE CheckNext(w, nx, j + 1, c)

\* checkStep of checkForCircularReferences; it throws by setting c.cycle
CheckStep(w, stepId, c) ==
  LET c1 == IF stepId \notin c.visited
            THEN LET c0 == [c EXCEPT !.visited = @ \cup {stepId},
                                     !.recStack = @ \cup {stepId},
                                     !.visits = @ + 1]
                     p == Find(w, stepId)
                 IN IF p # 0 THEN CheckNext(w, w.steps[p].nextSteps, 1, c0) ELSE c0
            ELSE c
  IN IF c1.cycle # NoId THEN c1
     ELSE [c1 EXCEPT !.recStack = @ \ {stepId}]

\* checkForCircularReferences: the final marking of the walk from the first step
CheckForCircularReferences(w) ==
  LET c == [visited |-> {}, recStack |-> {}, cycle |-> NoId, visits |-> 0] IN
  IF Len(w.steps) > 0 THEN CheckStep(w, w.steps[1].id, c) ELSE c

RECURSIVE Traverse(_, _, _)
RECURSIVE TraverseNext(_, _, _, _)
TraverseNext(w, nx, j, reachable) ==
  IF j > Len(nx) THEN reachable
  ELSE TraverseNext(w, nx, j + 1, Traverse(w, nx[j], reachable))

\* traverse of findReachableSteps
Traverse(w, stepId, reachable) ==
  IF stepId \in Range(reachable) THEN reachable
  ELSE LET r == Append(reachable, stepId)
           p == Find(w, stepId)
       IN IF p # 0 THEN TraverseNext(w, w.steps[p].nextSteps, 1, r) ELSE r

\* findReachableSteps: the ids reachable from the first step, in visiting order
FindReachableSteps(w) == Traverse(w, w.steps[1].id, <<>>)

\* UnreachableSteps cut down to the first unreachable step
UnreachableStepsFirst(w) ==
  LET reach == Range(FindReachableSteps(w))
      all == SelectSeq([i \in DOMAIN w.steps |-> w.steps[i].id],
                       LAMBDA d : d \notin reach)
  IN IF all = <<>> THEN <<>> ELSE <<all[1]>>

\* workflow.steps.filter(step => !reachableSteps.includes(step.id)).map(s => s.id)
UnreachableSteps(w) ==
  LET reach == Range(FindReachableSteps(w)) IN
  SelectSeq([i \in DOMAIN w.steps |-> w.steps[i].id], LAMBDA d : d \notin reach)

\* ValidateWorkflow with the end step check moved before the cycle check
ValidateWorkflowEndFirst(w) ==
  IF ~w.task THEN Err("NoTask", 0, NoTool, <<>>)
  ELSE IF Len(w.steps) = 0 THEN Err("NoSteps", 0, NoTool, <<>>)
  ELSE IF FirstStepError(w) # NoError THEN FirstStepError(w)
  ELSE IF ~\E i \in DOMAIN w.steps : Len(w.steps[i].nextSteps) = 0
    THEN Err("NoEndStep", 0, NoTool, <<>>)
  ELSE IF CheckForCircularReferences(w).cycle # NoId
    THEN Err("Circular", 0, NoTool, <<CheckForCircularReferences(w).cycle>>)
  ELSE IF Len(UnreachableSteps(w)) > 0
    THEN Err("Unreachable", 0, NoTool, UnreachableSteps(w))
  ELSE NoError

\* validateWorkflow: the error it throws, NoError when it returns
ValidateWorkflow(w) ==
  IF ~w.task THEN Err("NoTask", 0, NoTool, <<>>)
  ELSE IF Len(w.steps) = 0 THEN Err("NoSteps", 0, NoTool, <<>>)
  ELSE IF FirstStepError(w) # NoError THEN FirstStepError(w)
  ELSE IF CheckForCircularReferences(w).cycle # NoId
    THEN Err("Circular", 0, NoTool, <<CheckForCircularReferences(w).cycle>>)
  ELSE IF ~\E i \in DOMAIN w.steps : Len(w.steps[i].nextSteps) = 0
    THEN Err("NoEndStep", 0, NoTool, <<>>)
  ELSE IF Len(UnreachableSteps(w)) > 0
    THEN Err("Unreachable", 0, NoTool, UnreachableSteps(w))
  ELSE NoError


(***************************************************************************)
(* executeStep and its helpers.                                            *)
(***************************************************************************)
\* an error message: the innermost error last, each rethrow prefixes its own
Throw(t, s) == <<Err(t, s, NoTool, <<>>)>>

\* new Error(`Failed to execute step ${stepId}: ${error.message}`)
WrapStepError(stepId, e) == <<Err("StepFailed", stepId, NoTool, <<>>)>> \o e

\* new Error(`Failed to generate workflow: ${error.message}`)
WrapGenerateError(e) == <<Err("GenerateFailed", 0, NoTool, <<>>)>> \o e

\* the innermost error of a message
Origin(e) == e[Len(e)]

\* the WorkflowResult executeWorkflow starts from
NewResult ==
  [status |-> "in-progress", completedSteps |-> <<>>,
   stepResults |-> <<>>, error |-> <<>>]

\* no WorkflowResult yet
NoResult ==
  [status |-> "pending", completedSteps |-> <<>>,
   stepResults |-> <<>>, error |-> <<>>]

\* AlreadyCompleted that never finds the step
NeverCompleted(res, stepId) == FALSE

\* AlreadyCompleted that looks at the step completed last only
CompletedLast(res, stepId) ==
  res.completedSteps # <<>> /\ res.completedSteps[Len(res.completedSteps)] = stepId

\* result.completedSteps.includes(stepId)
AlreadyCompleted(res, stepId) == stepId \in Range(res.completedSteps)

\* result.stepResults[stepId] = stepResult; stepResults is kept as the list of
\* [id, value] entries, an assignment to a present key replacing its value
SetStepResult(sr, stepId, v) ==
  IF \E i \in DOMAIN sr : sr[i].id = stepId
  THEN [i \in DOMAIN sr |-> IF sr[i].id = stepId THEN [id |-> stepId, value |-> v]
                                                  ELSE sr[i]]
  ELSE Append(sr, [id |-> stepId, value |-> v])

\* RecordResult that marks the step completed and drops its result
RecordCompletedOnly(res, stepId, v) ==
  [res EXCEPT !.completedSteps = Append(@, stepId)]

\* RecordResult that keeps the result and leaves completedSteps as it is
RecordResultOnly(res, stepId, v) ==
  [res EXCEPT !.stepResults = SetStepResult(@, stepId, v)]

\* result.stepResults[stepId] = stepResult; result.completedSteps.push(stepId)
RecordResult(res, stepId, v) ==
  [res EXCEPT !.stepResults = SetStepResult(@, stepId, v),
              !.completedSteps = Append(@, stepId)]

\* Object.entries(result.stepResults): the step ids "1", "2", ... are integer
\* keys, which an object lists in ascending order whatever the order in which
\* they were set
ObjectEntries(sr) ==
  [k \in DOMAIN sr |->
     CHOOSE e \in Range(sr) : Cardinality({x \in Range(sr) : x.id < e.id}) = k - 1]

\* the context of processingPrompt: completedSteps.join(', ') and the lines
\* of 'Previous results'
ProcessingContext(res) ==
  [completed |-> res.completedSteps, previous |-> ObjectEntries(res.stepResults)]

\* Collaborator that looks for a child agent before it looks for a tool
CollaboratorChildFirst(step) ==
  IF step.childAgent THEN "spawn"
  ELSE IF step.tool # NoTool THEN "tool"
  ELSE "llm"

\* the collaborator executeStep calls for a step: tool, then childAgent, then LLM
Collaborator(step) ==
  IF step.tool # NoTool THEN "tool"
  ELSE IF step.childAgent THEN "spawn"
  ELSE "llm"

\* what the collaborator may answer
Outcomes(call) == IF call = "tool" THEN {"ok", "null", "throw"} ELSE {"ok", "throw"}

\* Throws that takes a null answer for an exception
ThrowsOrNull(outcome) == outcome \in {"throw", "null"}

\* whether the await of the collaborator ends in an exception
Throws(outcome) == outcome = "throw"

\* the replies the language model may give when asked for a condition
ConditionReplies == {"true", "TRUE", "untrue", "false", "yes"}

\* the characters of a reply (conditionResponse.content)
Content(reply) ==
  CASE reply = "true" -> <<"t", "r", "u", "e">>
    [] reply = "TRUE" -> <<"T", "R", "U", "E">>
    [] reply = "untrue" -> <<"u", "n", "t", "r", "u", "e">>
    [] reply = "false" -> <<"f", "a", "l", "s", "e">>
    [] reply = "yes" -> <<"y", "e", "s">>

\* String.prototype.toLowerCase, on the letters that occur
ToLowerCase(str) ==
  [i \in DOMAIN str |->
     CASE str[i] = "T" -> "t" [] str[i] = "R" -> "r" [] str[i] = "U" -> "u"
       [] str[i] = "E" -> "e" [] OTHER -> str[i]]

\* String.prototype.includes
Includes(str, sub) ==
  \E i \in 0..(Len(str) - Len(sub)) : SubSeq(str, i + 1, i + Len(sub)) = sub

\* ConditionResult that takes the reply "true" alone for a yes
ConditionResultExact(reply) == Content(reply) = <<"t", "r", "u", "e">>

\* conditionResponse.content.toLowerCase().includes('true')
ConditionResult(reply) ==
  Includes(ToLowerCase(Content(reply)), <<"t", "r", "u", "e">>)

\* stepResult for an answer: toolResponse?.result || null, the child agent's
\* response, llmResponse.content
StepResult(call, outcome) ==
  IF outcome = "null" THEN Null
  ELSE IF call = "tool" THEN "toolResult"
  ELSE IF call = "spawn" THEN "childResult"
  ELSE "llmResult"

\* ActiveNextSteps that hands the list on from its last id to its first
ActiveNextStepsReversed(step, conditionResult) ==
  LET nx == IF step.condition.present
            THEN IF conditionResult THEN step.condition.then ELSE step.condition.else
            ELSE step.nextSteps
  IN [i \in DOMAIN nx |-> nx[Len(nx) + 1 - i]]

\* nextSteps after the condition, if any, has been evaluated
ActiveNextSteps(step, conditionResult) ==
  IF step.condition.present
  THEN IF conditionResult THEN step.condition.then ELSE step.condition.else
  ELSE step.nextSteps

\* an activation of executeStep
Frame(stepId) == [stepId |-> stepId, pc |-> "enter", next |-> <<>>, idx |-> 1]

Top(stk) == stk[Len(stk)]

Pop(stk) == SubSeq(stk, 1, Len(stk) - 1)

SetTop(stk, f) == [stk EXCEPT ![Len(stk)] = f]

VARIABLES
  phase,    \* position of processPrompt
  wf,       \* the workflow proposed by the language model
  genError, \* the error generateWorkflow threw, <<>> if none
  result,   \* the WorkflowResult of executeWorkflow
  stack,    \* the activations of executeStep, innermost last
  thrown,   \* the error in flight, <<>> if none
  log,      \* the calls made to the collaborators, with their answers
  answer,   \* what processPrompt returns
  parked,   \* a second run of executeWorkflow that waits at an await
  tasks,    \* the map of the task store: task id -> DelayedTask
  jobs,     \* the agent runs of the delayed tasks
  replies,  \* what the tools Invoke and DelayedResponse have returned
  tools,    \* McpServer.tools: tool name -> Tool
  sseSend,  \* McpServer.sseSend: whether an SSE send function is set
  authenticationHandler, \* McpServer.authenticationHandler, "null" if none
  authorizationHandler,  \* McpServer.authorizationHandler, "null" if none
  request,  \* the last call made to the McpServer and how it ended
  sent,     \* the SSE events that call has sent, in order
  invoked,  \* the tool handlers that call has invoked, in order
  conn,     \* the call of connectServer or connectClient under way
  managerConfig, \* WorkflowManager.config: the budgets given to the constructor
  executing,      \* position of DynamicWorkflow.execute
  workflowPlan,   \* the steps of the plan the language model returned
  sortedSteps,    \* executeWorkflowSteps: the steps as topologicalSort ordered them
  results,        \* executeWorkflowSteps: the StepResults so far
  completedSteps, \* executeWorkflowSteps: the ids of the completed steps
  dynCalls,       \* the calls execute made to the tools and the language model
  workflowResult  \* what execute returned

\* the variables of the workflow engine
engineVars == <<phase, wf, genError, result, stack, thrown, log, answer, parked>>

\* the variables of the server's delayed tasks
taskVars == <<tasks, jobs, replies>>

\* the variables of the McpServer
mcpVars == <<tools, sseSend, authenticationHandler, authorizationHandler,
             request, sent, invoked>>

\* the variables of the connect helpers
connVars == <<conn>>

\* the configuration of the workflow manager
configVars == <<managerConfig>>

\* the variables of the dynamic workflow
dynVars == <<executing, workflowPlan, sortedSteps, results, completedSteps,
             dynCalls, workflowResult>>

vars == <<engineVars, taskVars, mcpVars, connVars, configVars, dynVars>>

NoAnswer == [kind |-> "none", error |-> <<>>]

\* execute has not returned
NoWorkflowResult == [success |-> FALSE, output |-> <<>>, steps |-> <<>>]

\* no second run
NoRun ==
  [run |-> 0, phase |-> "none", result |-> NoResult, stack |-> <<>>,
   thrown |-> <<>>, log |-> <<>>, answer |-> NoAnswer]

Init ==
  /\ phase = "planning"
  /\ wf = [task |-> TRUE, steps |-> <<>>]
  /\ genError = <<>>
  /\ result = NoResult
  /\ stack = <<>>
  /\ thrown = <<>>
  /\ log = <<>>
  /\ answer = NoAnswer
  /\ parked = NoRun
  /\ tasks = [id \in AllTaskIds |-> Undefined]
  /\ jobs = [id \in AllTaskIds |-> NoJob]
  /\ replies = <<>>
  /\ tools = <<>>
  /\ sseSend = FALSE
  /\ authenticationHandler = "null"
  /\ authorizationHandler = "null"
  /\ request = NoRequest
  /\ sent = <<>>
  /\ invoked = <<>>
  /\ conn = NoConnect
  /\ managerConfig = DefaultConfig
  /\ executing = "idle"
  /\ workflowPlan = <<>>
  /\ sortedSteps = <<>>
  /\ results = <<>>
  /\ completedSteps = {}
  /\ dynCalls = <<>>
  /\ workflowResult = NoWorkflowResult

Called(call, stepId, outcome) == [call |-> call, step |-> stepId, outcome |-> outcome]

\* a call of the language model for a step, with the context its prompt holds
CalledWith(call, stepId, outcome, context) ==
  [call |-> call, step |-> stepId, outcome |-> outcome, context |-> context]

(***************************************************************************)
(* The language model composes its proposal.                               *)
(***************************************************************************)
\* the proposal leaves out the task
ProposeNoTask ==
  /\ phase = "planning" /\ wf.task /\ wf.steps = <<>>
  /\ MaxWeight >= 1
  /\ wf' = [wf EXCEPT !.task = FALSE]
  /\ UNCHANGED <<phase, genError, result, stack, thrown, log, answer, parked, taskVars, mcpVars, connVars, configVars, dynVars>>

\* the proposal gets one more step
ProposeStep ==
  /\ phase = "planning" /\ Len(wf.steps) < MaxSteps
  /\ \E c \in 0..(MaxWeight - WorkflowWeight(wf)) :
       \E st \in StepTable[Len(wf.steps) + 1, c] :
         wf' = [wf EXCEPT !.steps = Append(@, st)]
  /\ UNCHANGED <<phase, genError, result, stack, thrown, log, answer, parked, taskVars, mcpVars, connVars, configVars, dynVars>>

\* the proposal is the diamond
ProposeDiamond ==
  /\ phase = "planning" /\ wf.task /\ wf.steps = <<>>
  /\ wf' = Diamond
  /\ UNCHANGED <<phase, genError, result, stack, thrown, log, answer, parked, taskVars, mcpVars, connVars, configVars, dynVars>>

\* the proposal is the chain that counts down
ProposeCountdown ==
  /\ phase = "planning" /\ wf.task /\ wf.steps = <<>>
  /\ wf' = Countdown
  /\ UNCHANGED <<phase, genError, result, stack, thrown, log, answer, parked, taskVars, mcpVars, connVars, configVars, dynVars>>

(***************************************************************************)
(* processPrompt: generateWorkflow, executeWorkflow, generateSummary.      *)
(***************************************************************************)
\* processPrompt's catch: the error becomes the answer
ErrorAnswer(e) == [kind |-> "error", error |-> e]

\* generateWorkflow: the call of the language model fails (no proposal exists)
GenerateWorkflowLlmFails ==
  /\ phase = "planning" /\ wf.task /\ wf.steps = <<>>
  /\ genError' = WrapGenerateError(Throw("LlmThrew", 0))
  /\ log' = Append(log, Called("plan", 0, "throw"))
  /\ answer' = ErrorAnswer(genError')
  /\ phase' = "done"
  /\ UNCHANGED <<wf, result, stack, thrown, parked, taskVars, mcpVars, connVars, configVars, dynVars>>

\* generateWorkflow: the reply holds no JSON object
GenerateWorkflowNoJson ==
  /\ phase = "planning" /\ wf.task /\ wf.steps = <<>>
  /\ genError' = WrapGenerateError(Throw("NoJson", 0))
  /\ log' = Append(log, Called("plan", 0, "ok"))
  /\ answer' = ErrorAnswer(genError')
  /\ phase' = "done"
  /\ UNCHANGED <<wf, result, stack, thrown, parked, taskVars, mcpVars, connVars, configVars, dynVars>>

\* GenerateWorkflow that returns the workflow whatever validateWorkflow says
GenerateWorkflowUnchecked ==
  /\ phase = "planning"
  /\ log' = Append(log, Called("plan", 0, "ok"))
  /\ LET e == ValidateWorkflow(wf) IN
       genError' = IF e # NoError THEN WrapGenerateError(<<e>>) ELSE <<>>
  /\ phase' = "generated"
  /\ UNCHANGED <<wf, result, stack, thrown, answer, parked, taskVars, mcpVars, connVars, configVars, dynVars>>

\* generateWorkflow: the reply parses to wf, which validateWorkflow checks
GenerateWorkflow ==
  /\ phase = "planning"
  /\ log' = Append(log, Called("plan", 0, "ok"))
  /\ LET e == ValidateWorkflow(wf) IN
       IF e # NoError
       THEN /\ genError' = WrapGenerateError(<<e>>)
            /\ answer' = ErrorAnswer(genError')
            /\ phase' = "done"
       ELSE /\ phase' = "generated"
            /\ UNCHANGED <<genError, answer>>
  /\ UNCHANGED <<wf, result, stack, thrown, parked, taskVars, mcpVars, connVars, configVars, dynVars>>

\* executeWorkflow up to its call of executeStep for the first step
ExecuteWorkflow ==
  /\ phase = "generated"
  /\ phase' = "executing"
  /\ result' = NewResult
  /\ IF Len(wf.steps) = 0
     THEN stack' = <<>> /\ thrown' = Throw("TypeError", 0)
     ELSE stack' = <<Frame(wf.steps[1].id)>> /\ UNCHANGED thrown
  /\ UNCHANGED <<wf, genError, log, answer, parked, taskVars, mcpVars, connVars, configVars, dynVars>>

\* executeStep: find the step, skip it if it is completed
EnterStep ==
  /\ phase = "executing" /\ thrown = <<>> /\ stack # <<>>
  /\ Top(stack).pc = "enter"
  /\ LET stepId == Top(stack).stepId IN
       IF Find(wf, stepId) = 0
       THEN /\ thrown' = Throw("StepNotFound", stepId)
            /\ stack' = Pop(stack)
       ELSE IF AlreadyCompleted(result, stepId)
       THEN /\ stack' = Pop(stack)
            /\ UNCHANGED thrown
       ELSE /\ stack' = SetTop(stack, [Top(stack) EXCEPT !.pc = "exec"])
            /\ UNCHANGED thrown
  /\ UNCHANGED <<phase, wf, genError, result, log, answer, parked, taskVars, mcpVars, connVars, configVars, dynVars>>

\* executeStep: call the collaborator of the step and record its answer
RunStep ==
  /\ phase = "executing" /\ thrown = <<>> /\ stack # <<>>
  /\ Top(stack).pc = "exec"
  /\ LET stepId == Top(stack).stepId
         step == wf.steps[Find(wf, stepId)]
         call == Collaborator(step)
     IN \E outcome \in Outcomes(call) :
          /\ log' = Append(log, IF call = "llm"
                                 THEN CalledWith(call, stepId, outcome,
                                                 ProcessingContext(result))
                                 ELSE Called(call, stepId, outcome))
          /\ IF Throws(outcome)
             THEN /\ thrown' = Throw("CallThrew", stepId)
                  /\ UNCHANGED <<result, stack>>
             ELSE /\ result' = RecordResult(result, stepId, StepResult(call, outcome))
                  /\ IF step.condition.present
                     THEN /\ stack' = SetTop(stack, [Top(stack) EXCEPT !.pc = "cond"])
                          /\ UNCHANGED thrown
                     ELSE IF ActiveNextSteps(step, FALSE) = NoArray
                     THEN /\ thrown' = Throw("TypeError", stepId)
                          /\ UNCHANGED stack
                     ELSE /\ stack' = SetTop(stack,
                               [Top(stack) EXCEPT !.pc = "loop",
                                  !.next = ActiveNextSteps(step, FALSE)])
                          /\ UNCHANGED thrown
  /\ UNCHANGED <<phase, wf, genError, answer, parked, taskVars, mcpVars, connVars, configVars, dynVars>>

\* EvaluateCondition that takes the else branch when the language model throws
EvaluateConditionElseOnThrow ==
  /\ phase = "executing" /\ thrown = <<>> /\ stack # <<>>
  /\ Top(stack).pc = "cond"
  /\ LET stepId == Top(stack).stepId
         step == wf.steps[Find(wf, stepId)]
     IN \E outcome \in ConditionReplies \cup {"throw"} :
          /\ log' = Append(log, Called("cond", stepId, outcome))
          /\ stack' = SetTop(stack,
                [Top(stack) EXCEPT !.pc = "loop",
                   !.next = ActiveNextSteps(step, ~Throws(outcome) /\ ConditionResult(outcome))])
          /\ UNCHANGED thrown
  /\ UNCHANGED <<phase, wf, genError, result, answer, parked, taskVars, mcpVars, connVars, configVars, dynVars>>

\* executeStep: ask the language model to evaluate the condition
EvaluateCondition ==
  /\ phase = "executing" /\ thrown = <<>> /\ stack # <<>>
  /\ Top(stack).pc = "cond"
  /\ LET stepId == Top(stack).stepId
         step == wf.steps[Find(wf, stepId)]
     IN \E outcome \in ConditionReplies \cup {"throw"} :
          /\ log' = Append(log, Called("cond", stepId, outcome))
          /\ IF Throws(outcome)
             THEN /\ thrown' = Throw("ConditionThrew", stepId)
                  /\ UNCHANGED stack
             ELSE /\ stack' = SetTop(stack,
                       [Top(stack) EXCEPT !.pc = "loop",
                          !.next = ActiveNextSteps(step, ConditionResult(outcome))])
                  /\ UNCHANGED thrown
  /\ UNCHANGED <<phase, wf, genError, result, answer, parked, taskVars, mcpVars, connVars, configVars, dynVars>>

\* DispatchNext that leaves the loop after the first next step
DispatchFirstOnly ==
  /\ phase = "executing" /\ thrown = <<>> /\ stack # <<>>
  /\ Top(stack).pc = "loop" /\ Top(stack).idx <= Len(Top(stack).next)
  /\ stack' = Append(SetTop(stack, [Top(stack) EXCEPT !.idx = Len(Top(stack).next) + 1]),
                     Frame(Top(stack).next[Top(stack).idx]))
  /\ UNCHANGED <<phase, wf, genError, result, thrown, log, answer, parked, taskVars, mcpVars, connVars, configVars, dynVars>>

\* executeStep: the for loop calls executeStep for the next of nextSteps
DispatchNext ==
  /\ phase = "executing" /\ thrown = <<>> /\ stack # <<>>
  /\ Top(stack).pc = "loop" /\ Top(stack).idx <= Len(Top(stack).next)
  /\ stack' = Append(SetTop(stack, [Top(stack) EXCEPT !.idx = @ + 1]),
                     Frame(Top(stack).next[Top(stack).idx]))
  /\ UNCHANGED <<phase, wf, genError, result, thrown, log, answer, parked, taskVars, mcpVars, connVars, configVars, dynVars>>

\* executeStep: the for loop is over, return result
ReturnStep ==
  /\ phase = "executing" /\ thrown = <<>> /\ stack # <<>>
  /\ Top(stack).pc = "loop" /\ Top(stack).idx > Len(Top(stack).next)
  /\ stack' = Pop(stack)
  /\ UNCHANGED <<phase, wf, genError, result, thrown, log, answer, parked, taskVars, mcpVars, connVars, configVars, dynVars>>

\* CatchStep that swallows the error instead of rethrowing it
CatchStepSwallow ==
  /\ phase = "executing" /\ thrown # <<>> /\ stack # <<>>
  /\ thrown' = <<>>
  /\ stack' = Pop(stack)
  /\ UNCHANGED <<phase, wf, genError, result, log, answer, parked, taskVars, mcpVars, connVars, configVars, dynVars>>

\* executeStep: the catch block rethrows the error with the step's prefix
CatchStep ==
  /\ phase = "executing" /\ thrown # <<>> /\ stack # <<>>
  /\ thrown' = WrapStepError(Top(stack).stepId, thrown)
  /\ stack' = Pop(stack)
  /\ UNCHANGED <<phase, wf, genError, result, log, answer, parked, taskVars, mcpVars, connVars, configVars, dynVars>>

\* CompleteWorkflow that returns the result without setting its status
CompleteWorkflowKeepsStatus ==
  /\ phase = "executing" /\ thrown = <<>> /\ stack = <<>>
  /\ phase' = "summarizing"
  /\ UNCHANGED <<wf, genError, result, stack, thrown, log, answer, parked, taskVars, mcpVars, connVars, configVars, dynVars>>

\* executeWorkflow: executeStep returned for the first step
CompleteWorkflow ==
  /\ phase = "executing" /\ thrown = <<>> /\ stack = <<>>
  /\ result' = [result EXCEPT !.status = "completed"]
  /\ phase' = "summarizing"
  /\ UNCHANGED <<wf, genError, stack, thrown, log, answer, parked, taskVars, mcpVars, connVars, configVars, dynVars>>

\* FailWorkflow that returns a fresh result instead of the one in progress
FailWorkflowFresh ==
  /\ phase = "executing" /\ thrown # <<>> /\ stack = <<>>
  /\ result' = [NewResult EXCEPT !.status = "failed", !.error = thrown]
  /\ thrown' = <<>>
  /\ phase' = "summarizing"
  /\ UNCHANGED <<wf, genError, stack, log, answer, parked, taskVars, mcpVars, connVars, configVars, dynVars>>

\* executeWorkflow: the catch block
FailWorkflow ==
  /\ phase = "executing" /\ thrown # <<>> /\ stack = <<>>
  /\ result' = [result EXCEPT !.status = "failed", !.error = thrown]
  /\ thrown' = <<>>
  /\ phase' = "summarizing"
  /\ UNCHANGED <<wf, genError, stack, log, answer, parked, taskVars, mcpVars, connVars, configVars, dynVars>>

\* the texts the language model may write as a summary: it is free in its
\* words, those of processPrompt's error answer included
SummaryReplies == {"prose", "errorText"}

\* summaryResponse.content, as processPrompt returns it
SummaryContent(reply) ==
  IF reply = "prose" THEN [kind |-> "summary", error |-> <<>>]
  ELSE ErrorAnswer(WrapGenerateError(Throw("NoTask", 0)))

\* generateSummary's catch: 'Failed to generate summary: ...'
SummaryFailed == [kind |-> "summaryFailed", error |-> Throw("LlmThrew", 0)]

\* GenerateSummary without its catch: the error reaches processPrompt's catch
GenerateSummaryPropagates ==
  /\ phase = "summarizing"
  /\ \E outcome \in SummaryReplies \cup {"throw"} :
       /\ log' = Append(log, Called("summary", 0, outcome))
       /\ answer' = IF Throws(outcome) THEN ErrorAnswer(Throw("LlmThrew", 0))
                    ELSE SummaryContent(outcome)
  /\ phase' = "done"
  /\ UNCHANGED <<wf, genError, result, stack, thrown, parked, taskVars, mcpVars, connVars, configVars, dynVars>>

\* generateSummary, whose answer processPrompt returns
GenerateSummary ==
  /\ phase = "summarizing"
  /\ \E outcome \in SummaryReplies \cup {"throw"} :
       /\ log' = Append(log, Called("summary", 0, outcome))
       /\ answer' = IF Throws(outcome) THEN SummaryFailed ELSE SummaryContent(outcome)
  /\ phase' = "done"
  /\ UNCHANGED <<wf, genError, result, stack, thrown, parked, taskVars, mcpVars, connVars, configVars, dynVars>>

Next ==
  \/ ProposeNoTask
  \/ ProposeStep
  \/ ProposeDiamond
  \/ ProposeCountdown
  \/ GenerateWorkflowLlmFails
  \/ GenerateWorkflowNoJson
  \/ GenerateWorkflow
  \/ ExecuteWorkflow
  \/ EnterStep
  \/ RunStep
  \/ EvaluateCondition
  \/ DispatchNext
  \/ ReturnStep
  \/ CatchStep
  \/ CompleteWorkflow
  \/ FailWorkflow
  \/ GenerateSummary

Spec == Init /\ [][Next]_vars

\* new WorkflowManager(llm, config) with budgets of the caller's choice
Constructor ==
  /\ phase = "planning" /\ wf = [task |-> TRUE, steps |-> <<>>]
  /\ managerConfig = DefaultConfig
  /\ \E c \in BudgetConfigs \ {DefaultConfig} : managerConfig' = c
  /\ UNCHANGED <<engineVars, taskVars, mcpVars, connVars, dynVars>>

NextBudget == Constructor \/ Next

\* the engine under any of the budgets
SpecBudget == Init /\ [][NextBudget]_vars

\* every call of a collaborator returns or throws, and the engine goes on
SpecFair == Spec /\ WF_vars(Next)

(***************************************************************************)
(* The run with its deadline: the time configured as timeout may run out   *)
(* while executeWorkflow is under way.                                     *)
(***************************************************************************)
\* config.timeout milliseconds have passed since executeWorkflow was called;
\* no statement of executeWorkflow or executeStep reads config.timeout
DeadlineExpires ==
  /\ phase = "executing"
  /\ \A i \in DOMAIN log : log[i].call # "deadline"
  /\ log' = Append(log, Called("deadline", 0, "expired"))
  /\ UNCHANGED <<phase, wf, genError, result, stack, thrown, answer, parked, taskVars, mcpVars, connVars, configVars, dynVars>>

NextDeadline == Next \/ DeadlineExpires

SpecDeadline == Init /\ [][NextDeadline]_vars

(***************************************************************************)
(* Two runs of executeWorkflow on one WorkflowManager.  A run goes on      *)
(* until it awaits the answer of a collaborator; the other run may then    *)
(* go on.  The variables result, stack, thrown, log, phase and answer are  *)
(* those of the run that goes on, parked holds those of the run that       *)
(* waits.                                                                  *)
(***************************************************************************)
\* the number of steps up to which two runs of a workflow are explored
MaxConcurrentSteps == 2

\* the run that goes on is at an await: a call of a collaborator is next
AtAwait ==
  \/ /\ phase = "executing" /\ thrown = <<>> /\ stack # <<>>
     /\ Top(stack).pc \in {"exec", "cond"}
  \/ phase = "summarizing"

\* OwnResult that finds the result in a field of the manager, where the run
\* that went on last has left its own
OwnResultShared(current, own) == current

\* the result a run works on when it goes on: the object its executeWorkflow
\* created, which executeStep gets as an argument
OwnResult(current, own) == own

\* executeWorkflow is called again while the first run waits
StartSecondRun ==
  /\ parked = NoRun
  /\ phase = "executing" /\ AtAwait
  /\ Len(wf.steps) <= MaxConcurrentSteps
  /\ parked' = [run |-> 1, phase |-> phase, result |-> result, stack |-> stack,
                thrown |-> thrown, log |-> log, answer |-> answer]
  /\ result' = NewResult
  /\ stack' = <<Frame(wf.steps[1].id)>>
  /\ thrown' = <<>>
  /\ log' = <<>>
  /\ answer' = NoAnswer
  /\ UNCHANGED <<phase, wf, genError, taskVars, mcpVars, connVars, configVars, dynVars>>

\* the run that goes on waits or is over, the other run goes on
SwitchRun ==
  /\ parked.run # 0 /\ parked.phase # "done"
  /\ AtAwait \/ phase = "done"
  /\ parked' = [run |-> 3 - parked.run, phase |-> phase, result |-> result,
                stack |-> stack, thrown |-> thrown, log |-> log, answer |-> answer]
  /\ phase' = parked.phase
  /\ result' = OwnResult(result, parked.result)
  /\ stack' = parked.stack
  /\ thrown' = parked.thrown
  /\ log' = parked.log
  /\ answer' = parked.answer
  /\ UNCHANGED <<wf, genError, taskVars, mcpVars, connVars, configVars, dynVars>>

NextConcurrent == Next \/ StartSecondRun \/ SwitchRun

SpecConcurrent == Init /\ [][NextConcurrent]_vars

(***************************************************************************)
(* The server's delayed tasks: the tools Invoke (delayedExecution) and     *)
(* DelayedResponse, the task store and the agent executor.                 *)
(***************************************************************************)
\* the llmConfig an Invoke may carry: a supported provider with its API key,
\* an unsupported provider, a supported provider without API key
Configs == {"ok", "unsupportedProvider", "noApiKey"}

\* CreateTask that puts nothing in the map
CreateTaskNowhere(store, taskId) == store

\* TaskStore.createTask
CreateTask(store, taskId) ==
  [store EXCEPT ![taskId] = [taskId |-> taskId, status |-> "in-progress",
                             response |-> NoResponse, error |-> ""]]

\* getTask finding no task whatever the id
GetTaskNone(store, taskId) == Undefined

\* TaskStore.getTask
GetTask(store, taskId) == store[taskId]

\* completeTask writing the entry of the first task whatever the id
CompleteTaskFirst(store, taskId, response) ==
  [store EXCEPT ![1] = [taskId |-> 1, status |-> "completed",
                        response |-> response, error |-> ""]]

\* TaskStore.completeTask
CompleteTask(store, taskId, response) ==
  [store EXCEPT ![taskId] = [taskId |-> taskId, status |-> "completed",
                             response |-> response, error |-> ""]]

\* TaskStore.failTask
FailTask(store, taskId, error) ==
  [store EXCEPT ![taskId] = [taskId |-> taskId, status |-> "error",
                             response |-> NoResponse, error |-> error]]

\* what a call returns or throws
Returned(v) == [threw |-> "", value |-> v]

Thrown(e) == [threw |-> e, value |-> NoResponse]

\* what executeDynamicAgent returns: {agentResponse, timestamp}
AgentResult == [kind |-> "agentResponse", message |-> "", error |-> FALSE]

\* executeMastraAgent: the provider and the API key are checked, then the
\* agent runs; run tells whether executeDynamicAgent returns or throws
ExecuteMastraAgent(config, run) ==
  IF config = "unsupportedProvider" THEN Thrown("Unsupported provider")
  ELSE IF config = "noApiKey" THEN Thrown("API key not provided")
  ELSE IF run = "throw" THEN Thrown("agent failed")
  ELSE Returned(AgentResult)

\* executeAgentTask: an error of executeMastraAgent becomes the fallback
\* response {agentResponse: 'Error processing agent task: ...', error: true}
ExecuteAgentTask(config, run) ==
  LET r == ExecuteMastraAgent(config, run) IN
  IF r.threw # ""
  THEN Returned([kind |-> "fallback", message |-> r.threw, error |-> TRUE])
  ELSE r

\* processAgentTask losing the outcome of the agent run
ProcessAgentTaskDrops(store, taskId, config, run) == store

\* processAgentTask with the callbacks of handleDelayedExecution: onComplete
\* is taskStore.completeTask, onError is taskStore.failTask
ProcessAgentTask(store, taskId, config, run) ==
  LET r == ExecuteAgentTask(config, run) IN
  IF r.threw = "" THEN CompleteTask(store, taskId, r.value)
  ELSE FailTask(store, taskId, r.threw)

\* what a tool returns to the client
Reply(tool, taskId, status, isError, response, error, userError) ==
  [tool |-> tool, taskId |-> taskId, status |-> status, isError |-> isError,
   response |-> response, error |-> error, userError |-> userError]

\* createTaskStatusResponse
CreateTaskStatusResponse(task) ==
  IF task.status = "in-progress"
  THEN Reply("DelayedResponse", task.taskId, "in-progress", FALSE, NoResponse, "", "")
  ELSE IF task.status = "error"
  THEN Reply("DelayedResponse", task.taskId, "error", TRUE, NoResponse, task.error, "")
  ELSE Reply("DelayedResponse", task.taskId, "completed", FALSE, task.response, "", "")

\* the task id uuidv4 returns: one that was not handed out before
FreshTaskId ==
  CHOOSE id \in TaskIds :
    jobs[id] = NoJob /\ \A j \in TaskIds : jobs[j] = NoJob => id <= j

\* Invoke with delayedExecution = true (handleDelayedExecution): the task is
\* created, processAgentTask is started and not awaited, the id is returned
InvokeDelayed ==
  /\ \E id \in TaskIds : jobs[id] = NoJob
  /\ \E config \in Configs :
       /\ tasks' = CreateTask(tasks, FreshTaskId)
       /\ jobs' = [jobs EXCEPT ![FreshTaskId] =
                     [config |-> config, state |-> "running", threw |-> ""]]
  /\ replies' = Append(replies,
       Reply("Invoke", FreshTaskId, "in-progress", FALSE, NoResponse, "", ""))
  /\ UNCHANGED <<engineVars, mcpVars, connVars, configVars, dynVars>>

\* the agent run of task id ends and processAgentTask goes on after its await
Settles(id) ==
  \E run \in {"return", "throw"} :
    /\ jobs[id].state = "running"
    /\ tasks' = ProcessAgentTask(tasks, id, jobs[id].config, run)
    /\ jobs' = [jobs EXCEPT ![id] =
                  [@ EXCEPT !.state = "settled",
                            !.threw = ExecuteMastraAgent(jobs[id].config, run).threw]]
    /\ UNCHANGED <<engineVars, replies, mcpVars, connVars, configVars, dynVars>>

\* the agent run of some task ends
AgentSettles == \E id \in TaskIds : Settles(id)

\* the number of calls of DelayedResponse so far
Polls == Cardinality({i \in DOMAIN replies : replies[i].tool = "DelayedResponse"})

\* the tool DelayedResponse
DelayedResponse ==
  /\ Polls < MaxPolls
  /\ \E taskId \in AllTaskIds :
       LET task == GetTask(tasks, taskId) IN
       replies' = Append(replies,
         IF task = Undefined
         THEN Reply("DelayedResponse", taskId, "none", FALSE, NoResponse, "", "TaskNotFound")
         ELSE CreateTaskStatusResponse(task))
  /\ UNCHANGED <<engineVars, tasks, jobs, mcpVars, connVars, configVars, dynVars>>

NextTasks == InvokeDelayed \/ AgentSettles \/ DelayedResponse

SpecTasks == Init /\ [][NextTasks]_vars

\* every agent run returns or throws
SpecTasksFair == SpecTasks /\ \A id \in TaskIds : WF_vars(Settles(id))

(***************************************************************************)
(* McpServer: the tool registry, the handlers of authentication and        *)
(* authorization, and the messages of a client over SSE.                   *)
(***************************************************************************)
\* the handlers callers register, named by what a call of them does
ToolHandlers == {"succeeds", "reportsError", "throws"}

Descriptions == {"First tool", "Second tool"}

\* the field auth of a message
Auths == {"absent", "valid-token", "admin-token"}

\* the field id of a message that has none
NoRequestId == 0

RequestIds == {123, 456}

\* the field params of a message that has none
NoParams == [name |-> "undefined"]

Methods == {"absent", "listTools", "callTool", "invalidMethod"}

\* the messages a client sends: only callTool comes with params, and one
\* message stands for those without a method, one for those without an id
Messages ==
  [method : {"callTool"}, id : RequestIds,
   params : {NoParams} \cup [name : McpToolNames], auth : Auths]
  \cup [method : {"listTools", "invalidMethod"}, id : RequestIds,
        params : {NoParams}, auth : Auths]
  \cup {[method |-> "absent", id |-> 123, params |-> NoParams, auth |-> "absent"],
        [method |-> "listTools", id |-> NoRequestId, params |-> NoParams, auth |-> "absent"]}

NotThrown == [kind |-> "none", code |-> "", message |-> <<>>]

\* an async call that returned v
Resolves(v) == [threw |-> NotThrown, value |-> v]

\* no result
NoPayload == [kind |-> "none"]

\* an async call that threw e
Rejects(e) == [threw |-> e, value |-> NoPayload]

\* new McpError(code, message)
McpError(code, message) == [kind |-> "McpError", code |-> code, message |-> message]

\* new Error(message)
PlainError(message) == [kind |-> "Error", code |-> "", message |-> message]

\* the TypeError of reading a property of undefined
TypeError == [kind |-> "TypeError", code |-> "", message |-> <<"Cannot read properties of undefined">>]

\* a ToolResponse
ToolResponse(text, isError) == [kind |-> "toolResponse", text |-> text, isError |-> isError]

\* await tool.handler(args)
HandlerRun(handler) ==
  IF handler = "succeeds" THEN Resolves(ToolResponse(<<"Tool executed">>, FALSE))
  ELSE IF handler = "reportsError" THEN Resolves(ToolResponse(<<"Quota exceeded">>, TRUE))
  ELSE Rejects(PlainError(<<"Tool execution failed">>))

\* has finding no name registered
HasNever(registry, name) == FALSE

\* this.tools.has(name)
Has(registry, name) == \E i \in DOMAIN registry : registry[i].name = name

\* this.tools.get(name)
Get(registry, name) ==
  IF Has(registry, name)
  THEN registry[CHOOSE i \in DOMAIN registry : registry[i].name = name]
  ELSE Unregistered

\* this.tools.set(name, tool): a new key goes last, a known key keeps its place
Set(registry, name, tool) ==
  IF Has(registry, name)
  THEN [i \in DOMAIN registry |-> IF registry[i].name = name THEN tool ELSE registry[i]]
  ELSE Append(registry, tool)

\* token || ''
Token(auth) == IF auth = "absent" THEN "" ELSE auth

\* the authentication handler of the tests: token === 'valid-token'
Authenticates(handler, token) == token = "valid-token"

\* the authorization handler of the tests:
\* token === 'admin-token' || toolName === 'public-tool'
Authorizes(handler, token, toolName) == token = "admin-token" \/ toolName = "public-tool"

\* McpServer.authenticateRequest
AuthenticateRequest(auth) ==
  IF authenticationHandler = "null" THEN TRUE
  ELSE Authenticates(authenticationHandler, Token(auth))

\* authorizeToolAccess letting every request through
AuthorizeToolAccessOpen(auth, toolName) == TRUE

\* McpServer.authorizeToolAccess
AuthorizeToolAccess(auth, toolName) ==
  IF authorizationHandler = "null" THEN TRUE
  ELSE Authorizes(authorizationHandler, Token(auth), toolName)

\* an SSE event
SseEvent(event, id, payload, error) ==
  [event |-> event, id |-> id, result |-> payload, error |-> error]

\* if (this.sseSend) this.sseSend(...)
Send(events, e) == IF sseSend THEN Append(events, e) ELSE events

\* McpServer.sendErrorResponse
SendErrorResponse(events, id, code, message) ==
  Send(events, SseEvent("response", id, NoPayload,
                        [kind |-> "response", code |-> code, message |-> message]))

\* Array.from(this.tools.values()).map(...)
ToolList ==
  [kind |-> "tools",
   tools |-> [i \in DOMAIN tools |->
                [name |-> tools[i].name, description |-> tools[i].description]]]

\* executeToolHandler letting the error of the handler through
ExecuteToolHandlerRethrows(params) ==
  IF params = NoParams
  THEN [outcome |-> Rejects(TypeError), invoked |-> <<>>]
  ELSE LET tool == Get(tools, params.name) IN
       IF tool = Unregistered
       THEN [outcome |-> Rejects(McpError("MethodNotFound", <<"Tool not found", params.name>>)),
             invoked |-> <<>>]
       ELSE [outcome |-> HandlerRun(tool.handler),
             invoked |-> <<[name |-> tool.name, handler |-> tool.handler]>>]

\* McpServer.executeToolHandler: how the call ends and the handlers it invokes
ExecuteToolHandler(params) ==
  IF params = NoParams
  THEN [outcome |-> Rejects(TypeError), invoked |-> <<>>]
  ELSE LET tool == Get(tools, params.name) IN
       IF tool = Unregistered
       THEN [outcome |-> Rejects(McpError("MethodNotFound", <<"Tool not found", params.name>>)),
             invoked |-> <<>>]
       ELSE LET run == HandlerRun(tool.handler) IN
            [outcome |->
               IF run.threw = NotThrown THEN run
               ELSE Resolves(ToolResponse(<<"Error executing tool", params.name>>
                                            \o run.threw.message, TRUE)),
             invoked |-> <<[name |-> tool.name, handler |-> tool.handler]>>]

\* the branch callTool of handleClientMessage behind the two checks
CallTool(m) ==
  LET x == ExecuteToolHandler(m.params)
      e == x.outcome.threw
  IN [sent |->
        IF e = NotThrown
        THEN Send(<<>>, SseEvent("response", m.id, x.outcome.value, NotThrown))
        ELSE IF e.kind = "McpError"
        THEN SendErrorResponse(<<>>, m.id, e.code, e.message)
        ELSE SendErrorResponse(<<>>, m.id, "InternalError",
                               <<"Error executing tool">> \o e.message),
      invoked |-> x.invoked]

\* what the outer catch of handleClientMessage sends
FailedToProcess ==
  SseEvent("error", NoRequestId, NoPayload,
           [kind |-> "event", code |-> "", message |-> <<"Failed to process request">>])

\* the body of McpServer.handleClientMessage: the events it sends and the
\* handlers it invokes
ClientMessage(m) ==
  IF m.method = "absent" \/ m.id = NoRequestId
  THEN [sent |-> <<>>, invoked |-> <<>>]
  ELSE IF m.method = "listTools"
  THEN IF authenticationHandler # "null" /\ ~AuthenticateRequest(m.auth)
       THEN [sent |-> SendErrorResponse(<<>>, m.id, "InvalidRequest", <<"Authentication failed">>),
             invoked |-> <<>>]
       ELSE [sent |-> Send(<<>>, SseEvent("response", m.id, ToolList, NotThrown)),
             invoked |-> <<>>]
  ELSE IF m.method = "callTool"
  THEN IF authenticationHandler # "null" /\ ~AuthenticateRequest(m.auth)
       THEN [sent |-> SendErrorResponse(<<>>, m.id, "InvalidRequest", <<"Authentication failed">>),
             invoked |-> <<>>]
       ELSE IF authorizationHandler # "null" /\ m.params = NoParams
       THEN [sent |-> Send(<<>>, FailedToProcess), invoked |-> <<>>]
       ELSE IF authorizationHandler # "null" /\ ~AuthorizeToolAccess(m.auth, m.params.name)
       THEN [sent |-> SendErrorResponse(<<>>, m.id, "InvalidRequest",
                                        <<"Not authorized to access tool", m.params.name>>),
             invoked |-> <<>>]
       ELSE CallTool(m)
  ELSE [sent |-> SendErrorResponse(<<>>, m.id, "MethodNotFound", <<"Method not found", m.method>>),
        invoked |-> <<>>]

\* McpServer.registerTool
RegisterTool ==
  \E name \in McpToolNames, description \in Descriptions, handler \in ToolHandlers :
    /\ IF Has(tools, name)
       THEN /\ request' = [op |-> "registerTool", name |-> name,
                           description |-> description, handler |-> handler,
                           outcome |-> Rejects(PlainError(<<"Tool with name", name, "already exists">>))]
            /\ UNCHANGED tools
       ELSE /\ request' = [op |-> "registerTool", name |-> name,
                           description |-> description, handler |-> handler,
                           outcome |-> Resolves(NoPayload)]
            /\ tools' = Set(tools, name, [name |-> name, description |-> description,
                                          handler |-> handler])
    /\ sent' = <<>>
    /\ invoked' = <<>>
    /\ UNCHANGED <<sseSend, authenticationHandler, authorizationHandler, engineVars, taskVars, connVars, configVars, dynVars>>

\* McpServer.setAuthenticationHandler
SetAuthenticationHandler ==
  /\ authenticationHandler' = "validToken"
  /\ request' = [op |-> "setAuthenticationHandler"]
  /\ sent' = <<>>
  /\ invoked' = <<>>
  /\ UNCHANGED <<tools, sseSend, authorizationHandler, engineVars, taskVars, connVars, configVars, dynVars>>

\* McpServer.setAuthorizationHandler
SetAuthorizationHandler ==
  /\ authorizationHandler' = "adminOrPublic"
  /\ request' = [op |-> "setAuthorizationHandler"]
  /\ sent' = <<>>
  /\ invoked' = <<>>
  /\ UNCHANGED <<tools, sseSend, authenticationHandler, engineVars, taskVars, connVars, configVars, dynVars>>

\* McpServer.setupHttpSSE
SetupHttpSSE ==
  /\ sseSend' = TRUE
  /\ request' = [op |-> "setupHttpSSE"]
  /\ sent' = <<SseEvent("handshake", NoRequestId, NoPayload, NotThrown)>>
  /\ invoked' = <<>>
  /\ UNCHANGED <<tools, authenticationHandler, authorizationHandler, engineVars, taskVars, connVars, configVars, dynVars>>

\* a call of McpServer.executeToolHandler by itself, as the tests make it
CallExecuteToolHandler ==
  \E name \in McpToolNames :
    LET x == ExecuteToolHandler([name |-> name]) IN
    /\ request' = [op |-> "executeToolHandler", name |-> name, outcome |-> x.outcome]
    /\ sent' = <<>>
    /\ invoked' = x.invoked
    /\ UNCHANGED <<tools, sseSend, authenticationHandler, authorizationHandler,
                   engineVars, taskVars, connVars, configVars, dynVars>>

\* McpServer.handleClientMessage
HandleClientMessage ==
  \E m \in Messages :
    /\ request' = [op |-> "handleClientMessage", message |-> m]
    /\ sent' = ClientMessage(m).sent
    /\ invoked' = ClientMessage(m).invoked
    /\ UNCHANGED <<tools, sseSend, authenticationHandler, authorizationHandler,
                   engineVars, taskVars, connVars, configVars, dynVars>>

NextMcp ==
  \/ RegisterTool
  \/ SetAuthenticationHandler
  \/ SetAuthorizationHandler
  \/ SetupHttpSSE
  \/ CallExecuteToolHandler
  \/ HandleClientMessage

SpecMcp == Init /\ [][NextMcp]_vars

(***************************************************************************)
(* connectServer and connectClient: connect with retries.                  *)
(***************************************************************************)
\* x || d for a number x
OrDefault(x, d) == IF x = NotGiven \/ x = 0 THEN d ELSE x

\* the test of the catch block letting one more attempt through
RetriesExhaustedLate(retryCount, maxRetries) == retryCount > maxRetries + 1

\* the test retryCount > maxRetries of the catch block
RetriesExhausted(retryCount, maxRetries) == retryCount > maxRetries

\* the error connectServer and connectClient throw
FailedToConnect(who, maxRetries, cause) ==
  <<"Failed to connect", who, "after", maxRetries, "retries", cause>>

\* connectServer(server, transport, retryOptions) or connectClient(...) is
\* called and reaches its first await
Connect ==
  /\ conn.pc = "idle"
  /\ \E who \in {"server", "client"}, retryOptions \in RetryOptions :
       conn' = [who |-> who, retryOptions |-> retryOptions,
                maxRetries |-> OrDefault(retryOptions.maxRetries, 0),
                delayMs |-> OrDefault(retryOptions.delayMs, 1000),
                retryCount |-> 0, attempts |-> <<>>, pc |-> "connecting", threw |-> <<>>]
  /\ UNCHANGED <<engineVars, taskVars, mcpVars, configVars, dynVars>>

\* await server.connect(transport) resolves: return
ConnectResolves ==
  /\ conn.pc = "connecting"
  /\ conn' = [conn EXCEPT !.attempts = Append(@, "resolved"), !.pc = "returned"]
  /\ UNCHANGED <<engineVars, taskVars, mcpVars, configVars, dynVars>>

\* await server.connect(transport) rejects: the catch block
ConnectRejects ==
  /\ conn.pc = "connecting"
  /\ LET retryCount == conn.retryCount + 1 IN
     conn' = IF RetriesExhausted(retryCount, conn.maxRetries)
             THEN [conn EXCEPT !.attempts = Append(@, "rejected"),
                               !.retryCount = retryCount,
                               !.pc = "threw",
                               !.threw = FailedToConnect(conn.who, conn.maxRetries,
                                                         "Connection failed")]
             ELSE [conn EXCEPT !.attempts = Append(@, "rejected"),
                               !.retryCount = retryCount,
                               !.pc = "waiting"]
  /\ UNCHANGED <<engineVars, taskVars, mcpVars, configVars, dynVars>>

\* the timer of delayMs fires and the loop goes round
DelayElapses ==
  /\ conn.pc = "waiting"
  /\ conn' = [conn EXCEPT !.pc = "connecting"]
  /\ UNCHANGED <<engineVars, taskVars, mcpVars, configVars, dynVars>>

NextConnect == Connect \/ ConnectResolves \/ ConnectRejects \/ DelayElapses

\* every call of connect settles and every timer fires
SpecConnect ==
  /\ Init /\ [][NextConnect]_vars
  /\ WF_vars(ConnectResolves \/ ConnectRejects)
  /\ WF_vars(DelayElapses)

(***************************************************************************)
(* Vocabulary of the properties, stated on the workflow and the log and    *)
(* not through the operators of the engine.                                *)
(***************************************************************************)
\* validateWorkflow has judged wf
Judged ==
  /\ phase # "planning"
  /\ genError # <<>> => Origin(genError).type \notin {"LlmThrew", "NoJson"}

\* generateWorkflow threw
Rejected == genError # <<>>

\* executeWorkflow has returned
Ended == phase \in {"summarizing", "done"} /\ result.status # "pending"

StepIds(w) == {w.steps[i].id : i \in DOMAIN w.steps}

\* the step an id stands for: the first one that carries it
StepOf(w, id) ==
  w.steps[CHOOSE i \in DOMAIN w.steps :
            w.steps[i].id = id /\ \A j \in DOMAIN w.steps : w.steps[j].id = id => i <= j]

ListedIds(nx) == IF nx = NoArray THEN {} ELSE Range(nx)

\* successors by nextSteps
NextRelation(w) ==
  [id \in Ids \cup {NoId} |->
     IF id \in StepIds(w) THEN ListedIds(StepOf(w, id).nextSteps) ELSE {}]

\* successors by nextSteps and by the branch targets
SuccessorRelation(w) ==
  [id \in Ids \cup {NoId} |->
     IF id \in StepIds(w)
     THEN ListedIds(StepOf(w, id).nextSteps)
          \cup Range(StepOf(w, id).condition.then)
          \cup Range(StepOf(w, id).condition.else)
     ELSE {}]

RECURSIVE Closure(_, _)
\* the ids reachable from S through R, S included
Closure(R, S) ==
  LET T == S \cup UNION {R[x] : x \in S} IN
  IF T = S THEN S ELSE Closure(R, T)

OnCycle(R, id) == id \in Closure(R, R[id])

HasCycle(w, R) == \E id \in StepIds(w) : OnCycle(R, id)

EntryId(w) == w.steps[1].id

\* the calls of the log that execute a step, and those of the whole walk
ExecCalls == {"tool", "spawn", "llm"}

IsExecCall(e) == e.call \in ExecCalls

IsStepCall(e) == e.call \in ExecCalls \cup {"cond"}

ExecCount(id) == Cardinality({i \in DOMAIN log : IsExecCall(log[i]) /\ log[i].step = id})

\* the replies that contain 'true' in some case, and the others
Affirmative == {"true", "TRUE", "untrue"}

Negative == {"false", "yes"}

\* the successor set the engine has dispatched from a completed step, as the
\* log tells it
DispatchedOf(id) ==
  LET st == StepOf(wf, id) IN
  IF st.condition.present
  THEN IF \E i \in DOMAIN log, r \in Affirmative : log[i] = Called("cond", id, r)
       THEN Range(st.condition.then)
       ELSE IF \E i \in DOMAIN log, r \in Negative : log[i] = Called("cond", id, r)
       THEN Range(st.condition.else)
       ELSE {}
  ELSE ListedIds(st.nextSteps)

DispatchRelation ==
  [id \in Ids \cup {NoId} |-> IF id \in StepIds(wf) THEN DispatchedOf(id) ELSE {}]

Completed == Range(result.completedSteps)

(***************************************************************************)
(* C1                                                                      *)
(***************************************************************************)
\* C1 as stated: a completed run of a validated workflow has completed every
\* step reachable from the entry step through the successor sets, exactly once
C1_CompletedCoversReachable ==
  (Ended /\ result.status = "completed") =>
    /\ NoDup(result.completedSteps)
    /\ Completed = Closure(SuccessorRelation(wf), {EntryId(wf)}) \cap StepIds(wf)

\* C1 as amended: a completed run of a validated workflow has completed exactly
\* once every step reachable from the entry step through the dispatched
\* successor sets (the selected then/else list of a branching step, nextSteps
\* of any other step), and nothing else; without a branching step these are
\* all the reachable steps
C1_CompletedCoversDispatched ==
  (Ended /\ result.status = "completed") =>
    /\ NoDup(result.completedSteps)
    /\ Completed = Closure(DispatchRelation, {EntryId(wf)})
    /\ (\A i \in DOMAIN wf.steps : ~wf.steps[i].condition.present) =>
         Completed = Closure(NextRelation(wf), {EntryId(wf)})

\* a completed run in which a branch was taken and led to a further step
C1_Witness ==
  /\ Ended /\ result.status = "completed"
  /\ \E i \in DOMAIN wf.steps :
       /\ wf.steps[i].condition.present
       /\ DispatchedOf(wf.steps[i].id) # {}
  /\ Len(result.completedSteps) >= 2

(***************************************************************************)
(* C2                                                                      *)
(***************************************************************************)
\* C2: no step id has its collaborator called more than once in a run, and a
\* completed run of the diamond has called step D's collaborator exactly once
C2_StepExecutedAtMostOnce ==
  /\ \A id \in Ids \cup {NoId} : ExecCount(id) <= 1
  /\ (wf = Diamond /\ Ended /\ result.status = "completed") => ExecCount(4) = 1

\* the diamond has completed, D having been reached from B and from C
C2_Witness ==
  /\ wf = Diamond /\ phase = "done" /\ result.status = "completed"
  /\ ExecCount(4) = 1
  /\ result.completedSteps = <<1, 2, 4, 3>>

(***************************************************************************)
(* C3                                                                      *)
(***************************************************************************)
\* the steps whose tool executor answered null
NullSteps ==
  {log[i].step : i \in {j \in DOMAIN log : log[j].call = "tool" /\ log[j].outcome = "null"}}

NoCallThrew == \A i \in DOMAIN log : log[i].outcome # "throw"

\* a dispatched id that names no step
DanglingDispatch == \E s \in Completed : ~(DispatchedOf(s) \subseteq StepIds(wf))

\* C3: a tool step whose executor answers null is completed with a null
\* (failed) result, its successors are dispatched, and the run ends completed
\* unless a call throws (or a dispatched id names no step)
C3_ToolNotFoundIsNotFatal ==
  \A s \in NullSteps :
    /\ s \in Completed
    /\ [id |-> s, value |-> Null] \in Range(result.stepResults)
    /\ (Ended /\ result.status = "completed") => DispatchedOf(s) \subseteq Completed
    /\ (Ended /\ NoCallThrew /\ ~DanglingDispatch) => result.status = "completed"

\* a run ended completed although a tool answered null, the successors of that
\* step having run
C3_Witness ==
  /\ Ended /\ result.status = "completed"
  /\ \E s \in NullSteps : DispatchedOf(s) # {} /\ DispatchedOf(s) \subseteq Completed

(***************************************************************************)
(* C4                                                                      *)
(***************************************************************************)
\* the log entries of the step executions that returned
Succeeded == SelectSeq(log, LAMBDA e : IsExecCall(e) /\ e.outcome # "throw")

\* the log entries of the step executions that threw
Failed == SelectSeq(log, LAMBDA e : IsExecCall(e) /\ e.outcome = "throw")

\* C4: when the collaborator of a step throws, executeWorkflow returns failed,
\* the error carries the thrown error (prefixed once per enclosing step), and
\* completedSteps and stepResults hold exactly the steps executed before, in
\* order, the failing step not among them
C4_FailurePreservesPartialResults ==
  (Ended /\ Failed # <<>>) =>
    /\ result.status = "failed"
    /\ Origin(result.error) = Err("CallThrew", Failed[1].step, NoTool, <<>>)
    /\ \A i \in 1..(Len(result.error) - 1) : result.error[i].type = "StepFailed"
    /\ result.completedSteps = [i \in DOMAIN Succeeded |-> Succeeded[i].step]
    /\ result.stepResults =
         [i \in DOMAIN Succeeded |->
            [id |-> Succeeded[i].step,
             value |-> IF Succeeded[i].outcome = "null" THEN Null
                       ELSE IF Succeeded[i].call = "tool" THEN "toolResult"
                       ELSE IF Succeeded[i].call = "spawn" THEN "childResult"
                       ELSE "llmResult"]]
    /\ Failed[1].step \notin Completed

\* a run failed in its third step and returned the two results before it
C4_Witness ==
  /\ phase = "done" /\ result.status = "failed"
  /\ Failed # <<>>
  /\ Len(result.completedSteps) = 2 /\ Len(result.stepResults) = 2

(***************************************************************************)
(* C5                                                                      *)
(***************************************************************************)
StepCalls(l) == SelectSeq(l, IsStepCall)

Failing == thrown # <<>> \/ result.status = "failed"

\* C5: from the first error on, no step call is made and completedSteps and
\* stepResults do not change
C5_NoDispatchAfterError ==
  [][Failing =>
       /\ Failing'
       /\ result'.completedSteps = result.completedSteps
       /\ result'.stepResults = result.stepResults
       /\ StepCalls(log') = StepCalls(log)]_vars

\* an error is in flight while a sibling of the failed step is still waiting
C5_Witness ==
  /\ thrown # <<>>
  /\ \E i \in DOMAIN stack :
       /\ stack[i].pc = "loop"
       /\ stack[i].idx <= Len(stack[i].next)
       /\ stack[i].next[stack[i].idx] \notin Completed

(***************************************************************************)
(* C6                                                                      *)
(***************************************************************************)
\* C6: when planning or validation fails, no step is executed and there is no
\* execution state: the run ends with the error alone
C6_NoExecutionAfterRejection ==
  Rejected =>
    /\ phase = "done"
    /\ result = NoResult
    /\ stack = <<>> /\ thrown = <<>>
    /\ StepCalls(log) = <<>>
    /\ answer = [kind |-> "error", error |-> genError]

\* a proposal of two steps or more was rejected by validation
C6_Witness ==
  /\ Rejected /\ Judged
  /\ Len(wf.steps) >= 2
  /\ Origin(genError).type = "MissingNext"

(***************************************************************************)
(* The invariants of a workflow that validateWorkflow checks, stated on    *)
(* the workflow.                                                           *)
(***************************************************************************)
\* the per-step invariant the step at position i breaks first, "none" if none
StepViolation(w, i) ==
  LET st == w.steps[i] IN
  IF st.id = NoId THEN "NoId"
  ELSE IF ~st.description THEN "NoDescription"
  ELSE IF st.tool \notin Catalogue \cup {NoTool} THEN "UnknownTool"
  ELSE IF st.nextSteps = NoArray THEN "NoNextSteps"
  ELSE IF ~(Range(st.nextSteps) \subseteq StepIds(w)) THEN "MissingNext"
  ELSE "none"

\* the ids reachable from the entry step by nextSteps
ReachableIds(w) == Closure(NextRelation(w), {EntryId(w)})

\* a cycle of nextSteps can be reached from the entry step
ReachableCycle(w) == \E id \in ReachableIds(w) : OnCycle(NextRelation(w), id)

\* no step has an empty nextSteps
NoTerminalStep(w) == \A i \in DOMAIN w.steps : ListedIds(w.steps[i].nextSteps) # {}

\* the ids of the steps out of reach of the entry step, in workflow order
UnreachableIds(w) ==
  SelectSeq([i \in DOMAIN w.steps |-> w.steps[i].id],
            LAMBDA d : d \notin ReachableIds(w))

\* the violations found by the checks that precede the graph checks
FieldViolations(w) ==
  (IF ~w.task THEN {"NoTask"} ELSE {})
  \cup (IF w.steps = <<>> THEN {"NoSteps"} ELSE {})
  \cup {t \in {"NoId", "NoDescription", "UnknownTool", "NoNextSteps", "MissingNext"} :
          \E i \in DOMAIN w.steps :
            LET st == w.steps[i] IN
            \/ t = "NoId" /\ st.id = NoId
            \/ t = "NoDescription" /\ ~st.description
            \/ t = "UnknownTool" /\ st.tool \notin Catalogue \cup {NoTool}
            \/ t = "NoNextSteps" /\ st.nextSteps = NoArray
            \/ t = "MissingNext" /\ ~(ListedIds(st.nextSteps) \subseteq StepIds(w))}

\* all the checked invariants a workflow violates
Violations(w) ==
  FieldViolations(w)
  \cup (IF w.steps # <<>> /\ ReachableCycle(w) THEN {"Circular"} ELSE {})
  \cup (IF w.steps # <<>> /\ NoTerminalStep(w) THEN {"NoEndStep"} ELSE {})
  \cup (IF w.steps # <<>> /\ UnreachableIds(w) # <<>> THEN {"Unreachable"} ELSE {})

\* the violation the checks meet first, in the order of validateWorkflow
FirstViolation(w) ==
  IF ~w.task THEN "NoTask"
  ELSE IF w.steps = <<>> THEN "NoSteps"
  ELSE IF \E i \in DOMAIN w.steps : StepViolation(w, i) # "none"
    THEN StepViolation(w, CHOOSE i \in DOMAIN w.steps :
           /\ StepViolation(w, i) # "none"
           /\ \A j \in 1..(i - 1) : StepViolation(w, j) = "none")
  ELSE IF ReachableCycle(w) THEN "Circular"
  ELSE IF NoTerminalStep(w) THEN "NoEndStep"
  ELSE IF UnreachableIds(w) # <<>> THEN "Unreachable"
  ELSE "none"

\* the violations the error of generateWorkflow reports
Reported == {genError[i].type : i \in 2..Len(genError)}

IdList(w) == [i \in DOMAIN w.steps |-> w.steps[i].id]

\* C11: a workflow in which two steps carry the same id fails validation, so
\* that the step ids of every validated workflow are pairwise distinct
C11_DuplicateIdsRejected ==
  (Judged /\ ~Rejected) => NoDup(IdList(wf))

(***************************************************************************)
(* C12                                                                     *)
(***************************************************************************)
\* the branch targets of the step that an id stands for
BranchTargets(w, id) ==
  Range(StepOf(w, id).condition.then) \cup Range(StepOf(w, id).condition.else)

\* C12: in a validated workflow every id listed in nextSteps or as a branch
\* target names a step, and no cycle of the successor relation runs through a
\* branch target
C12_BranchTargetsValidated ==
  (Judged /\ ~Rejected) =>
    \A id \in StepIds(wf) :
      /\ SuccessorRelation(wf)[id] \subseteq StepIds(wf)
      /\ \A t \in BranchTargets(wf, id) : id \notin Closure(SuccessorRelation(wf), {t})

(***************************************************************************)
(* C13                                                                     *)
(***************************************************************************)
\* the positions of the steps that name a tool outside the catalogue
UnknownToolSteps(w) ==
  {i \in DOMAIN w.steps : w.steps[i].tool \notin Catalogue \cup {NoTool}}

\* the position of the first step that breaks a per-step invariant
FirstBadStep(w) ==
  CHOOSE i \in DOMAIN w.steps :
    /\ StepViolation(w, i) # "none"
    /\ \A j \in 1..(i - 1) : StepViolation(w, j) = "none"

CondReply(id) ==
  log[CHOOSE i \in DOMAIN log : log[i].call = "cond" /\ log[i].step = id].outcome

\* C15: the list a branching step dispatches from is its then list when the
\* reply to its condition contains 'true' in any case, its else list
\* otherwise, never its nextSteps; the steps it dispatches are the members of
\* that list, in order
C15_BranchSelectsThenOrElse ==
  \A i \in DOMAIN stack :
    LET f == stack[i]
        st == StepOf(wf, f.stepId)
    IN (f.pc = "loop" /\ st.condition.present) =>
         /\ f.next = IF CondReply(f.stepId) \in Affirmative
                     THEN st.condition.then ELSE st.condition.else
         /\ i < Len(stack) => stack[i + 1].stepId = f.next[f.idx - 1]

\* a branching step whose condition got the reply 'untrue' has dispatched the
\* first step of its then list, which is not its nextSteps
C15_Witness ==
  \E i \in 1..(Len(stack) - 1) :
    LET f == stack[i]
        st == StepOf(wf, f.stepId)
    IN /\ f.pc = "loop" /\ st.condition.present
       /\ CondReply(f.stepId) = "untrue"
       /\ st.condition.then # st.nextSteps
       /\ stack[i + 1].stepId = st.condition.then[1]

(***************************************************************************)
(* C16                                                                     *)
(***************************************************************************)
\* the position in the log at which the deadline expired, 0 if it has not
ExpiredAt ==
  IF \E i \in DOMAIN log : log[i].call = "deadline"
  THEN CHOOSE i \in DOMAIN log : log[i].call = "deadline"
  ELSE 0

\* C16: when the deadline expires during a run, no step call is made after
\* it and executeWorkflow returns failed with a timeout as its reason
C16_DeadlineStopsRun ==
  (Ended /\ ExpiredAt # 0) =>
    /\ \A i \in (ExpiredAt + 1)..Len(log) : ~IsStepCall(log[i])
    /\ result.status = "failed"
    /\ Origin(result.error).type = "Timeout"

(***************************************************************************)
(* C17                                                                     *)
(***************************************************************************)
\* an error was thrown in the walk: a call threw, or an id was dispatched
\* that names no step
ThrewInRun ==
  \/ \E i \in DOMAIN log : IsStepCall(log[i]) /\ log[i].outcome = "throw"
  \/ DanglingDispatch

\* what holds of the value executeWorkflow has returned
ReturnedStatus ==
  Ended =>
    /\ result.status \in {"completed", "failed"}
    /\ result.status = "completed" <=> ~ThrewInRun
    /\ result.status = "failed" <=> result.error # <<>>
    /\ (phase = "done" /\ result.status = "completed") =>
         log[Len(log)].call = "summary"

\* C17: the status goes from in-progress to completed or to failed and
\* nowhere else; the returned value is completed exactly when the walk ended
\* without a thrown error and failed, with its error set, otherwise; after
\* executeWorkflow has returned completed the next thing done is the request
\* for a summary
C17_StatusTransitions ==
  [][/\ ReturnedStatus'
     /\ result'.status # result.status =>
          \/ result.status = "pending" /\ result'.status = "in-progress"
          \/ result.status = "in-progress" /\ result'.status \in {"completed", "failed"}
     /\ (phase = "summarizing" /\ result.status = "completed") =>
          /\ Len(log') = Len(log) + 1
          /\ log'[Len(log')].call = "summary"
          /\ result' = result]_vars

\* a run has returned completed and its summary has been requested
C17_Witness ==
  /\ phase = "done" /\ result.status = "completed"
  /\ Len(result.completedSteps) >= 2
  /\ log[Len(log)] = Called("summary", 0, "prose")

(***************************************************************************)
(* C19                                                                     *)
(***************************************************************************)
\* the run ended before executeWorkflow was called
NeverStarted == phase = "done" /\ Rejected

\* the run ended after executeWorkflow returned failed
StartedAndFailed == phase = "done" /\ result.status = "failed"

\* C19: what processPrompt returns for a run that never started has the
\* form of its error answer, and what it returns for a run that started and
\* failed never has that form
C19_FailureKindsDistinguishable ==
  /\ NeverStarted => answer.kind = "error"
  /\ StartedAndFailed => answer.kind # "error"

(***************************************************************************)
(* C20                                                                     *)
(***************************************************************************)
\* the call for the summary threw
SummaryThrew == log # <<>> /\ log[Len(log)] = Called("summary", 0, "throw")

\* a summary put together from the step results, without the language model
SyntheticSummary(res) == [kind |-> "synthetic", results |-> res.stepResults]

\* C20 as stated: when the call for the summary fails, the caller receives a
\* summary assembled from stepResults
C20_SyntheticSummary ==
  (phase = "done" /\ SummaryThrew) =>
    /\ thrown = <<>>
    /\ answer = SyntheticSummary(result)

\* C20 as amended: when the call for the summary fails, the failure does not
\* propagate and changes neither the status nor the results of the run; the
\* caller receives the text 'Failed to generate summary: ' followed by the
\* message of the failure, which holds nothing of stepResults
C20_SummaryFailureContained ==
  [][SummaryThrew' =>
       /\ phase = "summarizing" /\ phase' = "done"
       /\ result' = result /\ thrown' = <<>> /\ genError' = genError
       /\ answer' = [kind |-> "summaryFailed", error |-> Throw("LlmThrew", 0)]]_vars

\* the summary of a run with two step results failed and the caller got the
\* failure text
C20_Witness ==
  /\ phase = "done" /\ SummaryThrew
  /\ Len(result.stepResults) = 2
  /\ answer.kind = "summaryFailed"

(***************************************************************************)
(* C18                                                                     *)
(***************************************************************************)
\* the step executions of a log that returned
SucceededIn(lg) == SelectSeq(lg, LAMBDA e : IsExecCall(e) /\ e.outcome # "throw")

\* the value a step execution of a log has left as the result of its step
ValueOf(e) ==
  IF e.outcome = "null" THEN Null
  ELSE IF e.call = "tool" THEN "toolResult"
  ELSE IF e.call = "spawn" THEN "childResult"
  ELSE "llmResult"

\* the state of a run holds what the calls of that run have brought, no more
\* and no less
ReflectsOwnCalls(res, lg) ==
  /\ res.completedSteps = [i \in DOMAIN SucceededIn(lg) |-> SucceededIn(lg)[i].step]
  /\ res.stepResults =
       [i \in DOMAIN SucceededIn(lg) |->
          [id |-> SucceededIn(lg)[i].step, value |-> ValueOf(SucceededIn(lg)[i])]]
  /\ (\E i \in DOMAIN lg : IsStepCall(lg[i]) /\ lg[i].outcome = "throw")
       => res.status # "completed"
  /\ (res.error # <<>> /\ Origin(res.error).type \in {"CallThrew", "ConditionThrew"})
       => \E i \in DOMAIN lg :
            /\ IsStepCall(lg[i]) /\ lg[i].outcome = "throw"
            /\ lg[i].step = Origin(res.error).step

\* C18: of two runs of executeWorkflow that take turns on one manager, each
\* has a state of its own: the completed steps, the results and the failure a
\* run returns are those of its own calls, whatever the other run did
C18_RunsDoNotShareState ==
  /\ ReflectsOwnCalls(result, log)
  /\ parked.run # 0 => ReflectsOwnCalls(parked.result, parked.log)

\* two runs of a workflow of two steps took turns and have ended, the one
\* completed with both steps, the other failed after the first
C18_Witness ==
  /\ parked.run # 0 /\ phase = "done" /\ parked.phase = "done"
  /\ result.status = "completed" /\ Len(result.completedSteps) = 2
  /\ parked.result.status = "failed" /\ Len(parked.result.completedSteps) = 1

(***************************************************************************)
(* C21                                                                     *)
(***************************************************************************)
\* C21: whenever a step other than the entry step has been dispatched, the
\* step that dispatched it and every ancestor on the dispatch path have
\* completed and are in their loops over the successors
C21_AncestorsCompletedFirst ==
  \A i \in DOMAIN stack :
    \A j \in 1..(i - 1) :
      /\ stack[j].stepId \in Completed
      /\ stack[j].pc = "loop"
      /\ stack[j + 1].stepId \in Range(stack[j].next)

\* the third step of a dispatch path is about to call its collaborator, its
\* two ancestors having completed
C21_Witness ==
  /\ Len(stack) = 3 /\ Top(stack).pc = "exec"
  /\ Top(stack).stepId \notin Completed
  /\ result.completedSteps = <<stack[1].stepId, stack[2].stepId>>

(***************************************************************************)
(* C22                                                                     *)
(***************************************************************************)
\* the results of the steps completed before the call at position i of the
\* log, in the order of their completion
CompletedBefore(i) ==
  LET S == SucceededIn(SubSeq(log, 1, i - 1)) IN
  [k \in DOMAIN S |-> [id |-> S[k].step, value |-> ValueOf(S[k])]]

\* C22: the context of every call of the language model for a step lists the
\* results of the steps completed before, in the order of their completion
C22_ContextInCompletionOrder ==
  \A i \in DOMAIN log :
    log[i].call = "llm" => log[i].context.previous = CompletedBefore(i)

(***************************************************************************)
(* C23                                                                     *)
(***************************************************************************)
\* the successors a step hands on, in their listed order, as far as the log
\* tells: a branching step without a reply has none yet
DispatchedSeq(id) ==
  LET st == StepOf(wf, id) IN
  IF st.condition.present
  THEN IF \E i \in DOMAIN log, r \in Affirmative : log[i] = Called("cond", id, r)
       THEN st.condition.then
       ELSE IF \E i \in DOMAIN log, r \in Negative : log[i] = Called("cond", id, r)
       THEN st.condition.else
       ELSE <<>>
  ELSE st.nextSteps

RECURSIVE PreOrder(_, _)
RECURSIVE PreOrderList(_, _, _)
\* the depth-first pre-order from a step, after the steps of acc
PreOrder(id, acc) ==
  IF id \in Range(acc) \/ id \notin StepIds(wf) THEN acc
  ELSE PreOrderList(DispatchedSeq(id), 1, Append(acc, id))

PreOrderList(nx, j, acc) ==
  IF j > Len(nx) THEN acc ELSE PreOrderList(nx, j + 1, PreOrder(nx[j], acc))

IsPrefix(s, t) == Len(s) <= Len(t) /\ s = SubSeq(t, 1, Len(s))

\* the chain 1 -> 2 -> 3 of steps without a branch
IsChainOfThree(w) ==
  /\ Len(w.steps) = 3 /\ IdList(w) = <<1, 2, 3>>
  /\ \A i \in 1..3 : ~w.steps[i].condition.present
  /\ w.steps[1].nextSteps = <<2>> /\ w.steps[2].nextSteps = <<3>>
  /\ w.steps[3].nextSteps = <<>>

ToolReturned == Len(replies') = Len(replies) + 1

\* what it returned
LastReply == replies'[Len(replies')]

\* the task ids Invoke has returned so far
ReturnedTaskIds == {replies[i].taskId : i \in {j \in DOMAIN replies : replies[j].tool = "Invoke"}}

\* C24: Invoke with delayedExecution puts a new task in the store with status
\* 'in-progress' and returns its id with that status while the agent run is
\* still under way; DelayedResponse for an id Invoke has returned finds the
\* task and reports 'in-progress' as long as the agent run has not ended
C24_DelayedTaskRegistered ==
  [][ToolReturned =>
       /\ LastReply.tool = "Invoke" =>
            /\ LastReply.status = "in-progress" /\ LastReply.userError = ""
            /\ tasks[LastReply.taskId] = Undefined
            /\ tasks'[LastReply.taskId].status = "in-progress"
            /\ jobs'[LastReply.taskId].state = "running"
       /\ (LastReply.tool = "DelayedResponse" /\ LastReply.taskId \in ReturnedTaskIds) =>
            /\ LastReply.userError = ""
            /\ jobs[LastReply.taskId].state = "running" =>
                 LastReply.status = "in-progress" /\ ~LastReply.isError]_vars

\* DelayedResponse has reported 'in-progress' for a task whose agent still runs
C24_Witness ==
  /\ Len(replies) = 2
  /\ replies[1].tool = "Invoke" /\ replies[1].taskId = 1
  /\ replies[2] = Reply("DelayedResponse", 1, "in-progress", FALSE, NoResponse, "", "")
  /\ jobs[1].state = "running"

(***************************************************************************)
(* C25                                                                     *)
(***************************************************************************)
\* the tasks whose agent execution has failed
FailedJobs == {id \in TaskIds : jobs[id].state = "settled" /\ jobs[id].threw # ""}

\* C25: when the agent execution of a delayed task has failed, the stored
\* status of the task is 'error' with the message of the failure, and no
\* DelayedResponse reports the task as 'completed'
C25_AgentFailureStoredAsError ==
  \A id \in FailedJobs :
    /\ tasks[id].status = "error"
    /\ tasks[id].error = jobs[id].threw
    /\ \A i \in DOMAIN replies :
         (replies[i].tool = "DelayedResponse" /\ replies[i].taskId = id) =>
           replies[i].status # "completed"

(***************************************************************************)
(* C26                                                                     *)
(***************************************************************************)
\* the ids that have a task in the store
StoredTaskIds == {id \in AllTaskIds : tasks[id] # Undefined}

\* C26: DelayedResponse for an id that has no task in the store fails with
\* the user error 'Task with ID ... not found', for an id that has one it
\* does not, and no call of DelayedResponse creates, removes or changes a task
C26_DelayedResponseReadsOnly ==
  [][(ToolReturned /\ LastReply.tool = "DelayedResponse") =>
       /\ tasks' = tasks
       /\ LastReply.taskId \notin StoredTaskIds <=> LastReply.userError = "TaskNotFound"
       /\ LastReply.taskId \notin StoredTaskIds =>
            LastReply.status = "none" /\ LastReply.response = NoResponse]_vars

\* DelayedResponse has been asked for an id that is not in the store while
\* another task is, and has failed with the user error
C26_Witness ==
  /\ StoredTaskIds = {1}
  /\ \E i \in DOMAIN replies :
       replies[i] = Reply("DelayedResponse", UnknownTaskId, "none", FALSE, NoResponse, "", "TaskNotFound")

(***************************************************************************)
(* C27                                                                     *)
(***************************************************************************)
\* the names that have a tool in a registry
RegisteredNames(registry) == {registry[i].name : i \in DOMAIN registry}

\* the tool a call of registerTool was made with
RequestedTool(r) == [name |-> r.name, description |-> r.description, handler |-> r.handler]

\* C27: registerTool with a name that is already registered throws 'Tool
\* with name <name> already exists' and leaves the registry as it was, so
\* the first registration and its handler are kept; with a new name it does
\* not throw and adds that tool, and nothing else, to the registry
C27_DuplicateToolRejected ==
  [][request'.op = "registerTool" =>
       IF request'.name \in RegisteredNames(tools)
       THEN /\ request'.outcome.threw =
                 PlainError(<<"Tool with name", request'.name, "already exists">>)
            /\ tools' = tools
       ELSE /\ request'.outcome.threw = NotThrown
            /\ tools' = Append(tools, RequestedTool(request'))
            /\ RegisteredNames(tools') = RegisteredNames(tools) \cup {request'.name}]_vars

\* a second registration of a name, with another handler, has thrown and the
\* handler of the first one is still the registered one
C27_Witness ==
  /\ request.op = "registerTool"
  /\ request.outcome.threw # NotThrown
  /\ \E i \in DOMAIN tools :
       /\ tools[i].name = request.name
       /\ tools[i].handler # request.handler
       /\ tools[i].description = "First tool" /\ request.description = "Second tool"

(***************************************************************************)
(* C28                                                                     *)
(***************************************************************************)
\* the place in the registry of the tool registered under a name
PlaceOf(name) == (CHOOSE i \in DOMAIN tools : tools[i].name = name)

\* C28: executeToolHandler throws the MethodNotFound error 'Tool not found:
\* <name>' for a name that is not registered and then invokes no handler;
\* for a registered tool it invokes the handler of that tool once and
\* returns what the handler returned; when that handler throws it does not
\* throw but returns a response with isError true that carries the message
C28_ToolExecutionOutcomes ==
  request.op = "executeToolHandler" =>
    IF request.name \notin RegisteredNames(tools)
    THEN /\ request.outcome.threw.kind = "McpError"
         /\ request.outcome.threw.code = "MethodNotFound"
         /\ request.outcome.threw.message = <<"Tool not found", request.name>>
         /\ invoked = <<>>
    ELSE LET h == tools[PlaceOf(request.name)].handler IN
         /\ invoked = <<[name |-> request.name, handler |-> h]>>
         /\ request.outcome.threw = NotThrown
         /\ h = "succeeds" =>
              request.outcome.value = ToolResponse(<<"Tool executed">>, FALSE)
         /\ h = "reportsError" =>
              request.outcome.value = ToolResponse(<<"Quota exceeded">>, TRUE)
         /\ h = "throws" =>
              /\ request.outcome.value.kind = "toolResponse"
              /\ request.outcome.value.isError
              /\ "Tool execution failed" \in Range(request.outcome.value.text)

\* executeToolHandler has run a tool whose handler threw and has returned
\* the response with isError
C28_Witness ==
  /\ request.op = "executeToolHandler"
  /\ request.name \in RegisteredNames(tools)
  /\ tools[PlaceOf(request.name)].handler = "throws"
  /\ request.outcome.value.isError

(***************************************************************************)
(* C29                                                                     *)
(***************************************************************************)
\* the last call was handleClientMessage with a message that has a method
\* and an id
HandledRequest ==
  /\ request.op = "handleClientMessage"
  /\ request.message.method # "absent"
  /\ request.message.id # NoRequestId

\* the authentication handler, if one is set, turns the token of m down
AuthenticationRejects(m) ==
  authenticationHandler # "null" /\ ~Authenticates(authenticationHandler, Token(m.auth))

\* the authorization handler, if one is set, turns the token and the tool of
\* m down
AuthorizationRejects(m) ==
  /\ authorizationHandler # "null"
  /\ m.params # NoParams
  /\ ~Authorizes(authorizationHandler, Token(m.auth), m.params.name)

\* the events sent are one 'response' with the id of m that carries an error
OneErrorResponse(m) ==
  /\ Len(sent) = 1
  /\ sent[1].event = "response"
  /\ sent[1].id = m.id
  /\ sent[1].result = NoPayload
  /\ sent[1].error # NotThrown

\* the tool list is among the events sent
ToolListRevealed == \E i \in DOMAIN sent : sent[i].result # NoPayload /\ sent[i].result.kind = "tools"

\* C29 as stated: with a handler of authentication or authorization set, a
\* callTool message invokes the tool handler only if neither handler turns
\* it down, a request that is turned down gets an error response with its id
\* and no tool handler is invoked, and listTools shows the tool list only to
\* requests the authentication handler accepts
C29_RejectedRequestAnswered ==
  (HandledRequest /\ (authenticationHandler # "null" \/ authorizationHandler # "null")) =>
    LET m == request.message IN
    /\ m.method = "callTool" =>
         /\ invoked # <<>> => ~AuthenticationRejects(m) /\ ~AuthorizationRejects(m)
         /\ (AuthenticationRejects(m) \/ AuthorizationRejects(m)) =>
              invoked = <<>> /\ OneErrorResponse(m)
    /\ m.method = "listTools" =>
         /\ ToolListRevealed => ~AuthenticationRejects(m)
         /\ AuthenticationRejects(m) => OneErrorResponse(m)

\* C29, amended: the same, where the error response is sent if an SSE sender
\* is set; without one a request that is turned down gets no event at all
C29_RejectedRequestNeverRuns ==
  (HandledRequest /\ (authenticationHandler # "null" \/ authorizationHandler # "null")) =>
    LET m == request.message IN
    /\ m.method = "callTool" =>
         /\ invoked # <<>> => ~AuthenticationRejects(m) /\ ~AuthorizationRejects(m)
         /\ (AuthenticationRejects(m) \/ AuthorizationRejects(m)) =>
              /\ invoked = <<>>
              /\ IF sseSend THEN OneErrorResponse(m) ELSE sent = <<>>
    /\ m.method = "listTools" =>
         /\ ToolListRevealed => ~AuthenticationRejects(m)
         /\ AuthenticationRejects(m) =>
              IF sseSend THEN OneErrorResponse(m) ELSE sent = <<>>

\* with both handlers and an SSE sender set, a callTool for a registered tool
\* that passes authentication and is turned down by authorization has got
\* the error response and the tool handler was not invoked
C29_Witness ==
  /\ HandledRequest
  /\ sseSend
  /\ authenticationHandler # "null" /\ authorizationHandler # "null"
  /\ request.message.method = "callTool"
  /\ request.message.params # NoParams
  /\ request.message.params.name \in RegisteredNames(tools)
  /\ ~AuthenticationRejects(request.message)
  /\ AuthorizationRejects(request.message)
  /\ OneErrorResponse(request.message)
  /\ invoked = <<>>

(***************************************************************************)
(* C30                                                                     *)
(***************************************************************************)
\* the 'response' events among those sent that carry a given id
ResponsesTo(id) == {i \in DOMAIN sent : sent[i].event = "response" /\ sent[i].id = id}

\* C30: with an SSE sender set, handleClientMessage answers a message that
\* has a method and an id with exactly one 'response' event that carries
\* the id of the message, and sends no other event
C30_OneResponsePerRequest ==
  (HandledRequest /\ sseSend) =>
    /\ Cardinality(ResponsesTo(request.message.id)) = 1
    /\ Len(sent) = 1

(***************************************************************************)
(* C31                                                                     *)
(***************************************************************************)
\* the attempts the caller's options allow: maxRetries + 1, one without
\* options or without maxRetries
AllowedAttempts ==
  IF conn.retryOptions.given /\ conn.retryOptions.maxRetries # NotGiven
  THEN conn.retryOptions.maxRetries + 1
  ELSE 1

\* the call of connectServer or connectClient has ended
ConnectEnded == conn.pc \in {"returned", "threw"}

\* all attempts but the last were rejected
OnlyLastMayResolve == \A i \in 1..(Len(conn.attempts) - 1) : conn.attempts[i] = "rejected"

\* C31: connectServer and connectClient make at most maxRetries + 1 attempts
\* (one without retry options); they return exactly when an attempt
\* succeeds, which is then the last one; they throw 'Failed to connect ...
\* after <maxRetries> retries' exactly when maxRetries + 1 attempts have
\* failed; once ended no further attempt follows; and every call ends
C31_ConnectRetriesBounded ==
  /\ [](/\ Len(conn.attempts) <= AllowedAttempts
        /\ OnlyLastMayResolve
        /\ conn.pc = "returned" <=>
             (conn.attempts # <<>> /\ conn.attempts[Len(conn.attempts)] = "resolved")
        /\ conn.pc = "threw" <=>
             (Len(conn.attempts) = AllowedAttempts /\ "resolved" \notin Range(conn.attempts))
        /\ conn.pc = "threw" =>
             conn.threw = <<"Failed to connect", conn.who, "after",
                            AllowedAttempts - 1, "retries", "Connection failed">>)
  /\ [][ConnectEnded => conn' = conn]_vars
  /\ (conn.pc = "connecting") ~> ConnectEnded

\* connectServer with maxRetries 2 has thrown after three failed attempts
C31_Witness ==
  /\ conn.who = "server"
  /\ conn.retryOptions.given /\ conn.retryOptions.maxRetries = 2
  /\ conn.pc = "threw"
  /\ conn.attempts = <<"rejected", "rejected", "rejected">>

(***************************************************************************)
(* C32                                                                     *)
(***************************************************************************)
TerminalStatuses == {"completed", "error"}

\* C32: every delayed task whose agent run returns or throws leaves
\* 'in-progress' for 'completed' or 'error', and an entry that is
\* 'completed' or 'error' is never changed again
C32_OneTerminalUpdate ==
  /\ \A id \in TaskIds :
       (tasks[id].status = "in-progress") ~> (tasks[id].status \in TerminalStatuses)
  /\ [][\A id \in TaskIds :
          tasks[id].status \in TerminalStatuses => tasks'[id] = tasks[id]]_vars
  /\ [][\A id \in TaskIds :
          tasks[id].status = "in-progress" =>
            tasks'[id].status \in TerminalStatuses \cup {"in-progress"}]_vars

\* two tasks have both got their terminal update
C32_Witness ==
  /\ tasks[1].status \in TerminalStatuses
  /\ tasks[2].status \in TerminalStatuses
  /\ jobs[1].state = "settled" /\ jobs[2].state = "settled"

(***************************************************************************)
(* C33                                                                     *)
(***************************************************************************)
\* the tasks whose agent run has ended
SettledJobs == {id \in TaskIds : jobs[id].state = "settled"}

\* the entry of task id holds the outcome of the agent run of task id
HoldsOwnOutcome(id) ==
  /\ tasks[id].taskId = id
  /\ tasks[id].status \in TerminalStatuses
  /\ IF jobs[id].threw = ""
     THEN tasks[id].status = "completed" /\ tasks[id].response = AgentResult
     ELSE \/ tasks[id].status = "error" /\ tasks[id].error = jobs[id].threw
          \/ tasks[id].status = "completed" /\ tasks[id].response.message = jobs[id].threw

\* C33: with several delayed tasks in flight, ending in any order, the
\* terminal entry of each task holds the outcome of its own agent run, a
\* task whose run has not ended is 'in-progress', and a step changes the
\* entry of no task but the one whose run it starts or ends
C33_TasksDoNotInterfere ==
  /\ [](\A id \in TaskIds :
          /\ id \in SettledJobs => HoldsOwnOutcome(id)
          /\ jobs[id].state = "running" => tasks[id].status = "in-progress"
          /\ jobs[id] = NoJob => tasks[id] = Undefined)
  /\ [][\A id \in AllTaskIds : tasks'[id] # tasks[id] => jobs'[id] # jobs[id]]_vars

\* the second task has ended with a failure while the first, started
\* earlier with another configuration, is still running
C33_Witness ==
  /\ jobs[1].state = "running" /\ jobs[2].state = "settled"
  /\ jobs[1].config = "ok" /\ jobs[2].config = "noApiKey"
  /\ tasks[1].status = "in-progress"
  /\ HoldsOwnOutcome(2)

(***************************************************************************)
(* C34                                                                     *)
(***************************************************************************)
\* the keys of stepResults
ResultKeys(res) == {res.stepResults[i].id : i \in DOMAIN res.stepResults}

\* C34: in every state of a run the keys of stepResults are the ids in
\* completedSteps, each of them once, and completedSteps only grows at its end
C34_ResultsMatchCompleted ==
  /\ [](/\ ResultKeys(result) = Range(result.completedSteps)
        /\ NoDup(result.completedSteps)
        /\ Cardinality(ResultKeys(result)) = Len(result.stepResults))
  /\ [][IsPrefix(result.completedSteps, result'.completedSteps)]_vars

\* a run has failed after two steps were completed, and both have their result
C34_Witness ==
  /\ result.status = "failed"
  /\ Len(result.completedSteps) = 2
  /\ ResultKeys(result) = Range(result.completedSteps)

(***************************************************************************)
(* C35                                                                     *)
(***************************************************************************)
\* the calls that executed a step so far
ExecutionsSoFar == Cardinality({i \in DOMAIN log : IsExecCall(log[i])})

\* C35: executeWorkflow ends on every workflow, those with a cycle through
\* branch targets included, when every call of a collaborator returns or
\* throws, and it never executes more steps than the workflow has step ids
C35_ExecutionTerminates ==
  /\ [](ExecutionsSoFar <= Cardinality(StepIds(wf)))
  /\ (phase = "executing") ~> Ended

\* a run has completed on a workflow that validation let through although
\* its branch targets close a cycle, and the run has walked round that cycle
C35_Witness ==
  /\ Ended /\ result.status = "completed"
  /\ ~HasCycle(wf, NextRelation(wf))
  /\ \E id \in StepIds(wf) : OnCycle(DispatchRelation, id)

(***************************************************************************)
(* C36                                                                     *)
(***************************************************************************)
\* the places of the log where the evaluation of a condition threw
CondThrows == {i \in DOMAIN log : log[i].call = "cond" /\ log[i].outcome = "throw"}

\* C36: when the language model throws while it evaluates the condition of
\* a branching step, that step is already in completedSteps with its result
\* in stepResults, no step is called for afterwards, so none of its then or
\* else steps is dispatched, and the run ends 'failed'
C36_ConditionFailureAfterRecord ==
  \A i \in CondThrows :
    /\ log[i].step \in Range(result.completedSteps)
    /\ log[i].step \in ResultKeys(result)
    /\ \A j \in DOMAIN log : j > i => ~IsStepCall(log[j])
    /\ DispatchedOf(log[i].step) = {}
    /\ result.completedSteps[Len(result.completedSteps)] = log[i].step
    /\ phase = "executing" => thrown # <<>>
    /\ Ended => result.status = "failed"

\* a run has ended 'failed' because the condition of its second step could
\* not be evaluated; the first two steps are recorded and the branch targets
\* never ran
C36_Witness ==
  /\ Ended /\ result.status = "failed"
  /\ CondThrows # {}
  /\ Len(result.completedSteps) = 2
  /\ \E i \in CondThrows :
       /\ log[i].step = result.completedSteps[2]
       /\ StepOf(wf, log[i].step).condition.then # <<>>

(***************************************************************************)
(* C37                                                                     *)
(***************************************************************************)
\* the places of the log where a step was executed
Executions == {i \in DOMAIN log : IsExecCall(log[i])}

\* the result stored for a step id
StoredResult(id) ==
  result.stepResults[CHOOSE k \in DOMAIN result.stepResults :
                       result.stepResults[k].id = id].value

\* C37: every executed step calls one collaborator, once: the tool executor
\* if the step names a tool, else the spawner if it has a child agent, else
\* the language model; a step with a tool and a child agent never spawns;
\* and what the spawner returned is the stored result of the step
C37_OneCollaboratorByPrecedence ==
  /\ \A i \in Executions :
       LET st == StepOf(wf, log[i].step) IN
       /\ ExecCount(log[i].step) = 1
       /\ st.tool # NoTool => log[i].call = "tool"
       /\ (st.tool = NoTool /\ st.childAgent) => log[i].call = "spawn"
       /\ (st.tool = NoTool /\ ~st.childAgent) => log[i].call = "llm"
       /\ (log[i].call = "spawn" /\ log[i].outcome = "ok") =>
            /\ log[i].step \in ResultKeys(result)
            /\ StoredResult(log[i].step) = "childResult"
  /\ \A id \in Range(result.completedSteps) : ExecCount(id) = 1

\* a step that names a tool and has a child agent has completed through the
\* tool executor, and the spawner was never called
C37_Witness ==
  /\ Ended /\ result.status = "completed"
  /\ \E i \in Executions :
       /\ StepOf(wf, log[i].step).tool # NoTool /\ StepOf(wf, log[i].step).childAgent
       /\ log[i].call = "tool" /\ log[i].outcome = "ok"
       /\ StoredResult(log[i].step) = "toolResult"
  /\ \A j \in DOMAIN log : log[j].call # "spawn"

(***************************************************************************)
(* C38                                                                     *)
(***************************************************************************)
\* the calls of the spawner so far
SpawnsSoFar == Cardinality({i \in DOMAIN log : log[i].call = "spawn"})

\* C38: in every run the number of sub-agent spawns stays within
\* config.maxChildAgents and the number of executed steps within
\* config.maxSteps
C38_BudgetsRespected ==
  /\ SpawnsSoFar <= managerConfig.maxChildAgents
  /\ ExecutionsSoFar <= managerConfig.maxSteps

(***************************************************************************)
(* DynamicWorkflow: the workflow whose steps name the steps they depend    *)
(* on (src/unnamed/part_008).                                              *)
(***************************************************************************)
\* the most steps a plan of the language model has
MaxPlanSteps == 2

\* the ids the language model writes, as a step's id and in dependsOn
PlanStepIds == {"step1", "step2", "step3"}

\* this.tools: the ids of the mock tools
DynTools == {"search", "summarize"}

\* a step without a dependsOn field
NoDependsOn == <<"undefined">>

\* what the dependsOn field of a step may hold
DependsOnLists ==
  {NoDependsOn, <<>>, <<"step1", "step2">>} \cup {<<d>> : d \in PlanStepIds}

\* the tool and input of a step: a search with its query, a summarize without
\* its text, no tool, and a tool the workflow does not have
StepShapes ==
  {[tool |-> "search", input |-> "query"],
   [tool |-> "summarize", input |-> "undefined"],
   [tool |-> "undefined", input |-> "undefined"],
   [tool |-> "browse", input |-> "undefined"]}

\* the steps JSON.parse may return in a plan
PlanSteps ==
  {[id |-> id, tool |-> sh.tool, input |-> sh.input, dependsOn |-> d] :
     id \in PlanStepIds, sh \in StepShapes, d \in DependsOnLists}

\* the plans: workflowPlan.steps
WorkflowPlans == UNION {[1..k -> PlanSteps] : k \in 1..MaxPlanSteps}

\* stepsMap.get of an id no step has
UndefinedStep ==
  [id |-> "undefined", tool |-> "undefined", input |-> "undefined",
   dependsOn |-> NoDependsOn]

\* stepsMap.get(stepId): new Map keeps the last entry of a key
StepsMapGet(steps, stepId) ==
  LET at == {i \in DOMAIN steps : steps[i].id = stepId} IN
  IF at = {} THEN UndefinedStep
  ELSE steps[CHOOSE i \in at : \A j \in at : j <= i]

\* step.dependsOn || []
DependsOnOrEmpty(step) == IF step.dependsOn = NoDependsOn THEN <<>> ELSE step.dependsOn

\* new Error(`Circular dependency detected with step: ${stepId}`)
CircularDependency(stepId) ==
  PlainError(<<"Circular dependency detected with step: ", stepId>>)

RECURSIVE Visit(_, _, _)
RECURSIVE VisitDependencies(_, _, _)
\* visit(stepId) on the sets visited and temp and the list result; threw holds
\* the error the visit ended with
Visit(steps, stepId, st) ==
  IF st.threw # NotThrown \/ stepId \in st.visited THEN st
  ELSE IF stepId \in st.temp THEN [st EXCEPT !.threw = CircularDependency(stepId)]
  ELSE LET step == StepsMapGet(steps, stepId)
           marked == [st EXCEPT !.temp = @ \cup {stepId}]
       IN IF step = UndefinedStep THEN [marked EXCEPT !.threw = TypeError]
          ELSE LET after == VisitDependencies(steps, DependsOnOrEmpty(step), marked) IN
               IF after.threw # NotThrown THEN after
               ELSE [after EXCEPT !.temp = @ \ {stepId},
                                  !.visited = @ \cup {stepId},
                                  !.result = Append(@, step)]

\* for (const depId of step.dependsOn || []) visit(depId)
VisitDependencies(steps, deps, st) ==
  IF deps = <<>> THEN st
  ELSE VisitDependencies(steps, Tail(deps), Visit(steps, Head(deps), st))

RECURSIVE VisitSteps(_, _, _)
\* for (const step of steps) if (!visited.has(step.id)) visit(step.id)
VisitSteps(steps, i, st) ==
  IF i > Len(steps) \/ st.threw # NotThrown THEN st
  ELSE VisitSteps(steps, i + 1, Visit(steps, steps[i].id, st))

\* topologicalSort(steps): the sorted steps, or the error it threw
TopologicalSort(steps) ==
  VisitSteps(steps, 1,
             [visited |-> {}, temp |-> {}, result |-> <<>>, threw |-> NotThrown])

\* step.dependsOn?.every(depId => completedSteps.has(depId)) ?? true
DependenciesMet(step, completed) ==
  IF step.dependsOn = NoDependsOn THEN TRUE
  ELSE \A i \in DOMAIN step.dependsOn : step.dependsOn[i] \in completed

\* step.tool && this.tools[step.tool]
UsesTool(step) == step.tool # "undefined" /\ step.tool \in DynTools

\* tool.execute(step.input || {}): search returns a string whatever it is
\* given, summarize reads text.length
ToolExecute(tool, input) ==
  IF tool = "summarize" /\ input # "text" THEN Rejects(TypeError)
  ELSE Resolves([kind |-> "text"])

\* what llm.complete may do
LlmCompletes == {Resolves([kind |-> "text"]), Rejects(PlainError(<<"LLM error">>))}

\* the StepResults
Skipped(step) == [id |-> step.id, status |-> "skipped", error |-> <<"Dependencies not met">>]

StepCompleted(step) == [id |-> step.id, status |-> "completed", error |-> <<>>]

StepFailed(step, error) == [id |-> step.id, status |-> "failed", error |-> error.message]

\* a call of a tool or of the language model
DynCall(call, id) == [call |-> call, step |-> id]

\* the catch of execute
ExecuteFailed(error) ==
  [success |-> FALSE, output |-> <<"Error: ">> \o error.message, steps |-> <<>>]

\* execute asks the language model for a plan
Execute ==
  /\ executing = "idle"
  /\ executing' = "plan"
  /\ dynCalls' = Append(dynCalls, DynCall("llm", "plan"))
  /\ UNCHANGED <<workflowPlan, sortedSteps, results, completedSteps, workflowResult>>
  /\ UNCHANGED <<engineVars, taskVars, mcpVars, connVars, configVars>>

\* the language model throws or answers without JSON
GenerateWorkflowPlanFails ==
  /\ executing = "plan"
  /\ workflowResult' = ExecuteFailed(PlainError(<<"Failed to generate workflow plan">>))
  /\ executing' = "returned"
  /\ UNCHANGED <<workflowPlan, sortedSteps, results, completedSteps, dynCalls>>
  /\ UNCHANGED <<engineVars, taskVars, mcpVars, connVars, configVars>>

\* the plan arrives, and executeWorkflowSteps sorts its steps
GenerateWorkflowPlan ==
  /\ executing = "plan"
  /\ \E steps \in WorkflowPlans :
       LET sorted == TopologicalSort(steps) IN
       /\ workflowPlan' = steps
       /\ IF sorted.threw # NotThrown
          THEN /\ workflowResult' = ExecuteFailed(sorted.threw)
               /\ executing' = "returned"
               /\ UNCHANGED sortedSteps
          ELSE /\ sortedSteps' = sorted.result
               /\ executing' = "steps"
               /\ UNCHANGED workflowResult
  /\ results' = <<>>
  /\ completedSteps' = {}
  /\ UNCHANGED dynCalls
  /\ UNCHANGED <<engineVars, taskVars, mcpVars, connVars, configVars>>

\* one round of the loop of executeWorkflowSteps
ExecuteWorkflowStep ==
  /\ executing = "steps"
  /\ Len(results) < Len(sortedSteps)
  /\ LET step == sortedSteps[Len(results) + 1] IN
     IF ~DependenciesMet(step, completedSteps)
     THEN /\ results' = Append(results, Skipped(step))
          /\ UNCHANGED <<completedSteps, dynCalls>>
     ELSE \E outcome \in (IF UsesTool(step) THEN {ToolExecute(step.tool, step.input)}
                          ELSE LlmCompletes) :
            /\ dynCalls' = Append(dynCalls,
                                  DynCall(IF UsesTool(step) THEN "tool" ELSE "llm", step.id))
            /\ IF outcome.threw = NotThrown
               THEN /\ results' = Append(results, StepCompleted(step))
                    /\ completedSteps' = completedSteps \cup {step.id}
               ELSE /\ results' = Append(results, StepFailed(step, outcome.threw))
                    /\ UNCHANGED completedSteps
  /\ UNCHANGED <<executing, workflowPlan, sortedSteps, workflowResult>>
  /\ UNCHANGED <<engineVars, taskVars, mcpVars, connVars, configVars>>

\* the loop is over: generateFinalResponse, which catches what the language
\* model throws, and the return of execute
GenerateFinalResponse ==
  /\ executing = "steps"
  /\ Len(results) = Len(sortedSteps)
  /\ \E outcome \in LlmCompletes :
       workflowResult' =
         [success |-> TRUE,
          output |-> IF outcome.threw = NotThrown THEN <<"summary">>
                     ELSE <<"Error generating summary: ">> \o outcome.threw.message,
          steps |-> results]
  /\ dynCalls' = Append(dynCalls, DynCall("llm", "final"))
  /\ executing' = "returned"
  /\ UNCHANGED <<workflowPlan, sortedSteps, results, completedSteps>>
  /\ UNCHANGED <<engineVars, taskVars, mcpVars, connVars, configVars>>

NextDynamic ==
  \/ Execute
  \/ GenerateWorkflowPlanFails
  \/ GenerateWorkflowPlan
  \/ ExecuteWorkflowStep
  \/ GenerateFinalResponse

\* the runs of DynamicWorkflow.execute
SpecDynamic == Init /\ [][NextDynamic]_vars

(***************************************************************************)
(* C39, C40                                                                *)
(***************************************************************************)
\* the dependsOn relation of a plan: an id and the ids its steps depend on
DependsOnRelation(steps) ==
  [id \in PlanStepIds |->
     UNION {Range(DependsOnOrEmpty(steps[i])) :
              i \in {j \in DOMAIN steps : steps[j].id = id}}]

\* the dependsOn relation of the plan contains a cycle
CyclicPlan(steps) == \E id \in PlanStepIds : OnCycle(DependsOnRelation(steps), id)

\* the result entries before entry i that belong to step id d and have one of
\* the statuses
EarlierEntries(i, d, statuses) ==
  {j \in 1..(i - 1) : results[j].id = d /\ results[j].status \in statuses}

\* the calls made for the step with id d
CallsForStep(d) == {i \in DOMAIN dynCalls : dynCalls[i].step = d}

\* C39: for a plan without a dependency cycle, a step is executed only after
\* every step it depends on has a 'completed' entry; a step with a failed or
\* skipped dependency is recorded 'skipped' ('Dependencies not met') without a
\* tool or LLM call; a failed step does not end the loop; and when execute has
\* returned every planned step has exactly one result entry
C39_DependenciesGateSteps ==
  (workflowPlan # <<>> /\ ~CyclicPlan(workflowPlan)) =>
    /\ \A i \in DOMAIN results :
         LET step == sortedSteps[i]
             deps == Range(DependsOnOrEmpty(step))
         IN /\ results[i].id = step.id
            /\ results[i].status \in {"completed", "failed"} =>
                 \A d \in deps : EarlierEntries(i, d, {"completed"}) # {}
            /\ (\E d \in deps : EarlierEntries(i, d, {"failed", "skipped"}) # {}) =>
                 /\ results[i] = Skipped(step)
                 /\ CallsForStep(step.id) = {}
    /\ executing = "returned" =>
         /\ Len(workflowResult.steps) = Len(workflowPlan)
         /\ \A k \in DOMAIN workflowPlan :
              Cardinality({i \in DOMAIN workflowResult.steps :
                             workflowResult.steps[i].id = workflowPlan[k].id}) = 1

\* C40: a plan whose dependsOn relation contains a cycle is rejected before
\* any step runs (execute returns success false with no steps, and only the
\* planning call was made); for a plan without a cycle topologicalSort
\* returns every step exactly once, each after the steps it depends on
C40_CycleRejectedElseSorted ==
  /\ (workflowPlan # <<>> /\ CyclicPlan(workflowPlan)) =>
       /\ executing = "returned"
       /\ ~workflowResult.success
       /\ workflowResult.steps = <<>>
       /\ \A i \in DOMAIN dynCalls : dynCalls[i].step = "plan"
  /\ (workflowPlan # <<>> /\ ~CyclicPlan(workflowPlan)) =>
       /\ executing = "returned" => workflowResult.success
       /\ Len(sortedSteps) = Len(workflowPlan)
       /\ \A k \in DOMAIN workflowPlan :
            Cardinality({i \in DOMAIN sortedSteps : sortedSteps[i] = workflowPlan[k]}) = 1
       /\ \A i \in DOMAIN sortedSteps :
            \A d \in Range(DependsOnOrEmpty(sortedSteps[i])) :
              \E j \in 1..(i - 1) : sortedSteps[j].id = d

====
